---- MODULE Spec2Model ----
(***************************************************************************)
(* Evolving Sketch: the time-decaying counter matrix (EvolvingSketchOptim), *)
(* the bandit parameter adapters and the W-TinyLFU admission policy.        *)
(*                                                                          *)
(* Numbers.  The float counters and the values of the decay function are    *)
(* modelled as exact non-negative dyadic rationals: a value is the set of   *)
(* the exponents of its binary expansion, {3, 0, -2} = 8 + 1 + 1/4.  The    *)
(* rounding of float32 is not modelled.  alpha is measured in units of      *)
(* 10000 * ln 2, so that f(t, alpha) = exp(alpha_real * t / 10000) is       *)
(* exactly 2^(alpha * t).                                                   *)
(***************************************************************************)
EXTENDS Integers, Sequences, FiniteSets, TLC

VARIABLES sketch, adapter, obs, policy, cache, driver

vars == <<sketch, adapter, obs, policy, cache, driver>>

\* ------------------------------------------------------------ bounds
NumKeys == 2
MaxUpdates == 3
MaxSum == 1
WarmupSteps == 183
MaxFree == 2
MaxCalls == 4
MaxOps == 1
MaxDigits == 17
MaxStream == 49
MaxDistinct == 120
MaxSize == 68
MaxHashCalls == 2

Keys == 1..NumKeys

\* ------------------------------------------------------------ rationals
RECURSIVE GCD(_, _)
GCD(a, b) == IF b = 0 THEN a ELSE GCD(b, a % b)

Abs(x) == IF x < 0 THEN -x ELSE x

\* n / d in lowest terms, d > 0
Rat(n, d) == LET g == GCD(Abs(n), d) IN [n |-> n \div g, d |-> d \div g]

RAdd(a, b) == Rat(a.n * b.d + b.n * a.d, a.d * b.d)
RSub(a, b) == Rat(a.n * b.d - b.n * a.d, a.d * b.d)
RMul(a, b) == Rat(a.n * b.n, a.d * b.d)
RLt(a, b) == a.n * b.d < b.n * a.d

\* ------------------------------------------------------------ dyadic numbers
MaxOf(S) == CHOOSE m \in S : \A x \in S : x <= m
MinOf(S) == CHOOSE m \in S : \A x \in S : m <= x

\* the bits of a natural number below 2^31
Bits(n) == {e \in 0..30 : (n \div (2 ^ e)) % 2 = 1}

RECURSIVE AddPow2(_, _)
AddPow2(v, e) == IF e \in v THEN AddPow2(v \ {e}, e + 1) ELSE v \cup {e}

\* a + b
RECURSIVE FAdd(_, _)
FAdd(a, b) ==
    IF b = {} THEN a
    ELSE LET e == MaxOf(b) IN FAdd(AddPow2(a, e), b \ {e})

\* a > b: the highest bit in which they differ is a bit of a
FGt(a, b) == \E e \in a \ b : \A x \in b \ a : x < e

SubPow2(a, e) ==
    IF e \in a THEN a \ {e}
    ELSE LET h == MinOf({x \in a : x > e}) IN (a \ {h}) \cup (e..(h - 1))

\* a - b, for a >= b
RECURSIVE FSub(_, _)
FSub(a, b) ==
    IF b = {} THEN a
    ELSE LET e == MaxOf(b) IN FSub(SubPow2(a, e), b \ {e})

\* v > a - b in exact arithmetic; a - b is negative when b > a
FGtDiff(v, a, b) == IF FGt(b, a) THEN TRUE ELSE FGt(v, FSub(a, b))

\* a / d, for d a power of two (every value of f is one)
FDiv(a, d) == LET m == MaxOf(d) IN {e - m : e \in a}

FMin(a, b) == IF FGt(a, b) THEN b ELSE a

\* a * b
RECURSIVE FMul(_, _)
FMul(a, b) ==
    IF a = {} THEN {}
    ELSE LET e == MaxOf(a) IN FAdd(FMul(a \ {e}, b), {e + x : x \in b})

\* std::numeric_limits<float>::max() = 2^128 - 2^104
FLT_MAX == 104..127

\* ------------------------------------------------------------ the adapters
\* the n-th root of q, for q a perfect n-th power
Root(q, n) == CHOOSE r \in 1..q : r ^ n = q

\* the double that is not a number, and the comparisons of doubles
NaN == -1
DoubleLe(x, y) == x # NaN /\ y # NaN /\ x <= y
DoubleLt(x, y) == x # NaN /\ y # NaN /\ x < y
DoubleEq(x, y) == x # NaN /\ y # NaN /\ x = y

\* exp(log_min + (log_max - log_min) * i / (num_arms - 1)); with one arm the
\* quotient is 0.0 / 0.0
log_space(min_param, max_param, num_arms, i) ==
    IF num_arms = 1 THEN NaN
    ELSE min_param * (Root(max_param \div min_param, num_arms - 1) ^ i)

\* std::pow(reward, 1.0 / k_reward_scaling_), kept symbolic where it is irrational
pow_inv(reward, scaling) ==
    IF scaling = 1 \/ reward.n = 0 \/ reward = Rat(1, 1) THEN reward
    ELSE [base |-> reward, root |-> scaling]

\* Adapter<double, double> with the members of both bandit adapters
NewAdapter(kind, min_param, max_param, num_arms) ==
    [kind |-> kind,
     first_update_ |-> TRUE,
     recording_history_ |-> FALSE,
     history_ |-> <<>>,
     last_obj_ |-> "uninitialized",
     last_param_ |-> "uninitialized",
     k_num_arms_ |-> num_arms,
     arms_ |-> [i \in 0..(num_arms - 1) |-> log_space(min_param, max_param, num_arms, i)],
     current_arm_ |-> 0,
     k_epsilon_ |-> Rat(0, 1),
     k_is_step_constant_ |-> FALSE,
     k_step_constant_ |-> Rat(0, 1),
     estimates_ |-> [i \in 0..(num_arms - 1) |-> Rat(0, 1)],
     updated_counts_ |-> [i \in 0..(num_arms - 1) |-> 0],
     k_reward_scaling_ |-> 1,
     k_window_size_ |-> 0,
     arm_histories_ |-> [i \in 0..(num_arms - 1) |-> <<>>],
     total_pulls_ |-> 0]

\* the two alternatives of the std::variant step: a constant, or a function of
\* n, of which the default n |-> 1 / n is the one used
ConstantStep(q) == [holds |-> "double", constant |-> q]
StepFunction == [holds |-> "function", constant |-> Rat(0, 1)]

EpsilonGreedyAdapter(min_param, max_param, num_arms, epsilon, step) ==
    [NewAdapter("EpsilonGreedy", min_param, max_param, num_arms) EXCEPT
        !.k_epsilon_ = epsilon,
        !.k_is_step_constant_ = (step.holds = "double"),
        !.k_step_constant_ = IF step.holds = "double" THEN step.constant ELSE Rat(0, 1)]

SlidingWindowThompsonSamplingAdapter(min_param, max_param, num_arms, reward_scaling, window_size) ==
    [NewAdapter("Thompson", min_param, max_param, num_arms) EXCEPT
        !.k_reward_scaling_ = reward_scaling,
        !.k_window_size_ = window_size]

\* the last of the largest estimates
get_best_arm_last(a) ==
    CHOOSE i \in DOMAIN a.estimates_ :
        /\ \A j \in DOMAIN a.estimates_ : ~RLt(a.estimates_[i], a.estimates_[j])
        /\ \A j \in DOMAIN a.estimates_ : j > i => RLt(a.estimates_[j], a.estimates_[i])

\* std::ranges::max_element: the first of the largest estimates
get_best_arm(a) ==
    CHOOSE i \in DOMAIN a.estimates_ :
        /\ \A j \in DOMAIN a.estimates_ : ~RLt(a.estimates_[i], a.estimates_[j])
        /\ \A j \in DOMAIN a.estimates_ : j < i => RLt(a.estimates_[j], a.estimates_[i])

\* a window that gives up its newest reward when it is full
add_reward_drop_newest(rewards, reward, window_size) ==
    IF Len(rewards) >= window_size THEN rewards ELSE Append(rewards, reward)

\* ArmHistory::add_reward
add_reward(rewards, reward, window_size) ==
    LET pushed == Append(rewards, reward)
    IN IF Len(pushed) > window_size THEN Tail(pushed) ELSE pushed

\* a sum of doubles, kept exact: a rational and whole multiples of rewards that
\* are irrational roots
Exact(q) == [rat |-> q, roots |-> <<>>]

\* sum + sign * reward, sign 1 or -1
Plus(sum, reward, sign) ==
    IF "root" \in DOMAIN reward
    THEN [sum EXCEPT !.roots =
             [r \in DOMAIN sum.roots \cup {reward} |->
                 (IF r \in DOMAIN sum.roots THEN sum.roots[r] ELSE 0)
                 + (IF r = reward THEN sign ELSE 0)]]
    ELSE [sum EXCEPT !.rat = IF sign = 1 THEN RAdd(@, reward) ELSE RSub(@, reward)]

\* for (const double reward : rewards_) sum_rewards += reward
RECURSIVE sum_rewards(_, _)
sum_rewards(rewards, sum) ==
    IF rewards = <<>> THEN sum
    ELSE sum_rewards(Tail(rewards), Plus(sum, Head(rewards), 1))

\* for (const double reward : rewards_) sum_failures += (1.0 - reward)
RECURSIVE sum_failures(_, _)
sum_failures(rewards, sum) ==
    IF rewards = <<>> THEN sum
    ELSE sum_failures(Tail(rewards), Plus(Plus(sum, Rat(1, 1), 1), Head(rewards), -1))

\* a Beta parameter without the prior
get_beta_alpha_without_prior(rewards) == sum_rewards(rewards, Exact(Rat(0, 1)))

\* ArmHistory::get_beta_alpha
get_beta_alpha(rewards) ==
    IF rewards = <<>> THEN Exact(Rat(1, 1))
    ELSE Plus(sum_rewards(rewards, Exact(Rat(0, 1))), Rat(1, 1), 1)

\* ArmHistory::get_beta_beta
get_beta_beta(rewards) ==
    IF rewards = <<>> THEN Exact(Rat(1, 1))
    ELSE Plus(sum_failures(rewards, Exact(Rat(0, 1))), Rat(1, 1), 1)

\* the draws of the random number generators of one call: arm is the value of
\* the uniform_int_distribution (and the arm whose Beta sample is the largest),
\* u the value of the uniform_real_distribution, which only the epsilon-greedy
\* adapt consults (and the arm only when u < epsilon)
Draws(a) ==
    IF a.kind = "EpsilonGreedy" /\ ~a.first_update_
    THEN [arm : DOMAIN a.arms_, u : {Rat(0, 1)}] \cup [arm : {0}, u : {Rat(1, 2)}]
    ELSE [arm : DOMAIN a.arms_, u : {Rat(0, 1)}]

\* a first call that counts as a pull of the arm it picks
EpsilonGreedy_disturb_counting(a, param, rnd) ==
    [a |-> [a EXCEPT !.current_arm_ = rnd.arm, !.updated_counts_[rnd.arm] = @ + 1],
     new_param |-> a.arms_[rnd.arm]]

EpsilonGreedy_disturb_param(a, param, rnd) ==
    [a |-> [a EXCEPT !.current_arm_ = rnd.arm], new_param |-> a.arms_[rnd.arm]]

\* an adapt that picks the best arm before it updates the estimate
EpsilonGreedy_adapt_choose_first(a, obj, last_obj, param, last_param, rnd) ==
    LET reward == obj
        cur == a.current_arm_
        counts == IF a.k_is_step_constant_ THEN a.updated_counts_
                  ELSE [a.updated_counts_ EXCEPT ![cur] = @ + 1]
        step == IF a.k_is_step_constant_ THEN a.k_step_constant_ ELSE Rat(1, counts[cur])
        est == [a.estimates_ EXCEPT
                   ![cur] = RAdd(@, RMul(step, RSub(reward, a.estimates_[cur])))]
        a1 == [a EXCEPT !.updated_counts_ = counts, !.estimates_ = est]
        next == IF RLt(rnd.u, a.k_epsilon_) THEN rnd.arm ELSE get_best_arm(a)
    IN [a |-> [a1 EXCEPT !.current_arm_ = next], new_param |-> a.arms_[next]]

\* an adapt that picks the next arm first and credits the reward to it
EpsilonGreedy_adapt_credit_chosen(a, obj, last_obj, param, last_param, rnd) ==
    LET reward == obj
        next == IF RLt(rnd.u, a.k_epsilon_) THEN rnd.arm ELSE get_best_arm(a)
        counts == IF a.k_is_step_constant_ THEN a.updated_counts_
                  ELSE [a.updated_counts_ EXCEPT ![next] = @ + 1]
        step == IF a.k_is_step_constant_ THEN a.k_step_constant_ ELSE Rat(1, counts[next])
        est == [a.estimates_ EXCEPT
                   ![next] = RAdd(@, RMul(step, RSub(reward, a.estimates_[next])))]
    IN [a |-> [a EXCEPT !.updated_counts_ = counts, !.estimates_ = est, !.current_arm_ = next],
        new_param |-> a.arms_[next]]

EpsilonGreedy_adapt(a, obj, last_obj, param, last_param, rnd) ==
    LET reward == obj
        cur == a.current_arm_
        counts == IF a.k_is_step_constant_ THEN a.updated_counts_
                  ELSE [a.updated_counts_ EXCEPT ![cur] = @ + 1]
        step == IF a.k_is_step_constant_ THEN a.k_step_constant_ ELSE Rat(1, counts[cur])
        est == [a.estimates_ EXCEPT
                   ![cur] = RAdd(@, RMul(step, RSub(reward, a.estimates_[cur])))]
        a1 == [a EXCEPT !.updated_counts_ = counts, !.estimates_ = est]
        next == IF RLt(rnd.u, a.k_epsilon_) THEN rnd.arm ELSE get_best_arm(a1)
    IN [a |-> [a1 EXCEPT !.current_arm_ = next], new_param |-> a.arms_[next]]

Thompson_disturb_param(a, param, rnd) ==
    [a |-> [a EXCEPT !.current_arm_ = rnd.arm, !.total_pulls_ = 0],
     new_param |-> a.arms_[rnd.arm]]

\* every Beta sample lies in (0, 1) with full support, so any arm can hold the
\* largest one
sample_thompson_arm(a, rnd) == rnd.arm

Thompson_adapt(a, obj, last_obj, param, last_param, rnd) ==
    LET reward == pow_inv(obj, a.k_reward_scaling_)
        cur == a.current_arm_
        a1 == [a EXCEPT !.total_pulls_ = @ + 1,
                        !.arm_histories_[cur] = add_reward(@, reward, a.k_window_size_)]
        next == sample_thompson_arm(a1, rnd)
    IN [a |-> [a1 EXCEPT !.current_arm_ = next], new_param |-> a.arms_[next]]

disturb_param(a, param, rnd) ==
    IF a.kind = "EpsilonGreedy" THEN EpsilonGreedy_disturb_param(a, param, rnd)
    ELSE Thompson_disturb_param(a, param, rnd)

adapter_adapt(a, obj, last_obj, param, last_param, rnd) ==
    IF a.kind = "EpsilonGreedy" THEN EpsilonGreedy_adapt(a, obj, last_obj, param, last_param, rnd)
    ELSE Thompson_adapt(a, obj, last_obj, param, last_param, rnd)

\* a call that records the parameter passed in, not the one returned
Adapter_call_records_param(a, obj, param, rnd) ==
    LET r == IF a.first_update_
             THEN disturb_param([a EXCEPT !.first_update_ = FALSE], param, rnd)
             ELSE adapter_adapt(a, obj, a.last_obj_, param, a.last_param_, rnd)
        hist == IF r.a.recording_history_
                THEN Append(r.a.history_, <<obj, param>>)
                ELSE r.a.history_
    IN [a |-> [r.a EXCEPT !.history_ = hist, !.last_obj_ = obj, !.last_param_ = param],
        new_param |-> r.new_param,
        path |-> IF a.first_update_ THEN "disturb_param" ELSE "adapt"]

\* Adapter::operator(); path tells which branch ran
Adapter_call(a, obj, param, rnd) ==
    LET r == IF a.first_update_
             THEN disturb_param([a EXCEPT !.first_update_ = FALSE], param, rnd)
             ELSE adapter_adapt(a, obj, a.last_obj_, param, a.last_param_, rnd)
        hist == IF r.a.recording_history_
                THEN Append(r.a.history_, <<obj, r.new_param>>)
                ELSE r.a.history_
    IN [a |-> [r.a EXCEPT !.history_ = hist, !.last_obj_ = obj, !.last_param_ = param],
        new_param |-> r.new_param,
        path |-> IF a.first_update_ THEN "disturb_param" ELSE "adapt"]

\* a start that keeps the pairs recorded before
start_recording_history_keeping(a) == [a EXCEPT !.recording_history_ = TRUE]

start_recording_history(a) == [a EXCEPT !.recording_history_ = TRUE, !.history_ = <<>>]
stop_recording_history(a) == [a EXCEPT !.recording_history_ = FALSE]
clear_history(a) == [a EXCEPT !.history_ = <<>>]

\* ------------------------------------------------------------ the history file
\* std::format("{}", double): the shortest decimal text that reads back as the
\* same double.  A text is a sequence of characters.  For the values met here
\* (integers below 10^16 and fractions with a short expansion) it is the
\* decimal expansion, without a point when the value is an integer; at most
\* MaxDigits digits follow the point.
Digits == <<"0", "1", "2", "3", "4", "5", "6", "7", "8", "9">>

RECURSIVE NatDigits(_)
NatDigits(n) == IF n < 10 THEN <<Digits[n + 1]>> ELSE NatDigits(n \div 10) \o <<Digits[(n % 10) + 1]>>

RECURSIVE FracDigits(_, _, _)
FracDigits(r, d, fuel) ==
    IF r = 0 \/ fuel = 0 THEN <<>>
    ELSE <<Digits[((10 * r) \div d) + 1]>> \o FracDigits((10 * r) % d, d, fuel - 1)

format_double(q) ==
    IF q.d = 1 THEN NatDigits(q.n)
    ELSE NatDigits(q.n \div q.d) \o <<".">> \o FracDigits(q.n % q.d, q.d, MaxDigits)

\* std::format("{},{}\n", obj, param): one line, without its newline
format_line(obj, param) == format_double(obj) \o <<",">> \o format_double(param)

\* the paths: a path is the sequence of its components
parent_path(path) == SubSeq(path, 1, Len(path) - 1)

\* std::filesystem::exists; the empty path does not exist
exists(fs, path) == path # <<>> /\ (path \in fs.dirs \/ path \in DOMAIN fs.files)

\* std::filesystem::create_directories: every missing directory on the way;
\* the empty path is an invalid argument, and the call throws
create_directories(fs, path) ==
    IF path = <<>> THEN [fs |-> fs, threw |-> "filesystem_error"]
    ELSE [fs |-> [fs EXCEPT !.dirs = @ \cup {SubSeq(path, 1, n) : n \in 1..Len(path)}],
          threw |-> "nothing"]

\* std::ofstream file(path): the file is created or truncated; it does not
\* open when the path names a directory or its directory is missing
is_open(fs, path) ==
    /\ path \notin fs.dirs
    /\ (parent_path(path) = <<>> \/ parent_path(path) \in fs.dirs)

\* the lines of the file save_history writes; std::format writes a parameter
\* that is not a number as nan
history_lines(a) ==
    <<<<"objective,parameter">>>> \o
    [i \in 1..Len(a.history_) |->
        IF a.history_[i][2] = NaN
        THEN format_double(a.history_[i][1]) \o <<",", "n", "a", "n">>
        ELSE format_line(a.history_[i][1], Rat(a.history_[i][2], 1))]

\* save_history (lines 225-242)
save_history(a, fs, path) ==
    LET made == IF ~exists(fs, parent_path(path))
                THEN create_directories(fs, parent_path(path))
                ELSE [fs |-> fs, threw |-> "nothing"]
    IN IF made.threw # "nothing" THEN made
       ELSE IF ~is_open(made.fs, path) THEN [fs |-> made.fs, threw |-> "runtime_error"]
       ELSE [fs |-> [made.fs EXCEPT !.files = [q \in DOMAIN @ \cup {path} |->
                                                   IF q = path THEN history_lines(a) ELSE @[q]]],
             threw |-> "nothing"]

\* ------------------------------------------------------------ the hash functions
\* MurmurHash2, 64-bit, cut down to words of 12 bits made of three units of 4
\* bits (in the code: 64 bits, eight bytes): the same steps on shorter words.
\* key is the sequence of the units hashed, len their number.
WordBits == 12
Word == 2 ^ WordBits
MurmurM == 2453
MurmurR == 9

RECURSIVE BitXor(_, _)
BitXor(a, b) ==
    IF a = 0 /\ b = 0 THEN 0
    ELSE (((a % 2) + (b % 2)) % 2) + 2 * BitXor(a \div 2, b \div 2)

Times(a, b) == ((a % Word) * (b % Word)) % Word

\* k *= m; k ^= k >> r; k *= m; h ^= k; h *= m, for each whole block
RECURSIVE murmur_blocks(_, _, _)
murmur_blocks(key, n, h) ==
    IF n = 0 THEN h
    ELSE LET k0 == key[1] + 16 * key[2] + 256 * key[3]
             k1 == Times(k0, MurmurM)
             k2 == BitXor(k1, k1 \div 2 ^ MurmurR)
             k3 == Times(k2, MurmurM)
         IN murmur_blocks(SubSeq(key, 4, Len(key)), n - 1, Times(BitXor(h, k3), MurmurM))

\* switch (len & 7): the units after the last whole block
murmur_tail(data2, rest, h) ==
    IF rest = 0 THEN h
    ELSE LET h2 == IF rest = 2 THEN BitXor(h, 16 * data2[2]) ELSE h
         IN Times(BitXor(h2, data2[1]), MurmurM)

\* a hash that goes on from the result of the call before
murmur_hash2_x64_64_chained(key, len, seed) ==
    LET last == IF obs = <<>> THEN 0 ELSE obs[Len(obs)].result
        blocks == murmur_blocks(key, len \div 3, BitXor(BitXor(seed, last) % Word,
                                                        Times(len, MurmurM)))
        h == murmur_tail(SubSeq(key, 3 * (len \div 3) + 1, len), len % 3, blocks)
        h1 == Times(BitXor(h, h \div 2 ^ MurmurR), MurmurM)
    IN BitXor(h1, h1 \div 2 ^ MurmurR)

murmur_hash2_x64_64(key, len, seed) ==
    LET blocks == murmur_blocks(key, len \div 3, BitXor(seed % Word, Times(len, MurmurM)))
        h == murmur_tail(SubSeq(key, 3 * (len \div 3) + 1, len), len % 3, blocks)
        h1 == Times(BitXor(h, h \div 2 ^ MurmurR), MurmurM)
    IN BitXor(h1, h1 \div 2 ^ MurmurR)

\* the units and the length a wrapper passes on: &item and sizeof(T) of an
\* integer (least unit first), c_str() and size() of a std::string, the pointer
\* and std::strlen of a string literal
RECURSIVE Units(_, _)
Units(n, size) == IF size = 0 THEN <<>> ELSE <<n % 16>> \o Units(n \div 16, size - 1)

bytes_of(item) == IF item.type = "integral" THEN Units(item.value, item.size) ELSE item.value

\* hash64
hash64(item, seed) == murmur_hash2_x64_64(bytes_of(item), Len(bytes_of(item)), seed)

\* hash32 on a 64-bit platform: the 64-bit hash, returned as uint32_t
hash32(item, seed) == murmur_hash2_x64_64(bytes_of(item), Len(bytes_of(item)), seed)
                          % 2 ^ (WordBits \div 2)

\* hash on a 64-bit platform
hash(item, seed) == hash64(item, seed)

\* ------------------------------------------------------------ the sketch
PRUNE_THRESHOLD == 16777215

MurmurC == 1540483477

\* PRUNE_THRESHOLD as a dyadic number
Threshold == Bits(PRUNE_THRESHOLD)

\* f(t, alpha) = exp(alpha * t / 10000), alpha in units of 10000 * ln 2
f(t, alpha) == {alpha * t}

\* a width that is not rounded up
bit_ceil_exact(n) == n

RECURSIVE bit_ceil(_)
bit_ceil(n) == IF n <= 1 THEN 1 ELSE 2 * bit_ceil((n + 1) \div 2)

\* (index ^ (seed * 0x5bd1e995)) % k_width_ ; k_width_ is a power of two, so
\* the product is reduced modulo k_width_ before the exclusive or
alt_index(s, index, seed) ==
    BitXor(index % s.k_width_, ((seed % s.k_width_) * (MurmurC % s.k_width_)) % s.k_width_)

\* a column that does not depend on the item: every item has that of the first
RECURSIVE row_index_of_first_key(_, _, _)
row_index_of_first_key(s, item, i) ==
    IF i = 0 THEN s.hash[1] % s.k_width_
    ELSE alt_index(s, row_index_of_first_key(s, item, i - 1), s.seeds_[i])

\* the column of item in row i (lines 165, 168-169 and 202, 204-205)
RECURSIVE row_index(_, _, _)
row_index(s, item, i) ==
    IF i = 0 THEN s.hash[item] % s.k_width_
    ELSE alt_index(s, row_index(s, item, i - 1), s.seeds_[i])

position(s, item, i) == i * s.k_width_ + row_index(s, item, i)


\* the state after construction (lines 45-59); hash is the hash function
\* murmur_hash2_x64_64(item, seed = 42), fixed but not computed
EvolvingSketchOptim(size, initial_alpha, adapt_interval, adapter_ptr, seedv, h) ==
    [k_width_ |-> bit_ceil(IF size \div 4 > 8 THEN size \div 4 ELSE 8),
     data_ |-> [p \in 0..(4 * bit_ceil(IF size \div 4 > 8 THEN size \div 4 ELSE 8) - 1) |-> {}],
     seeds_ |-> [i \in 0..3 |-> seedv[i + 1]],
     hash |-> h,
     t_ |-> 0,
     alpha_ |-> initial_alpha,
     k_adapt_interval_ |-> adapt_interval,
     adapt_counter_ |-> 0,
     k_adapter_ |-> adapter_ptr,
     sum |-> 0,
     update_count_ |-> 0,
     status |-> "ok"]

\* a prune that resets t_ and leaves the counters as they are
prune_reset_only(s) == [s EXCEPT !.t_ = 0]

\* a prune that divides as integers do, dropping the fraction
prune_truncating(s) ==
    LET d == f(s.t_, s.alpha_)
    IN [s EXCEPT !.data_ = [p \in DOMAIN s.data_ |-> {e \in FDiv(s.data_[p], d) : e >= 0}],
                 !.t_ = 0]

\* prune (lines 263-269)
prune(s) ==
    LET d == f(s.t_, s.alpha_)
    IN [s EXCEPT !.data_ = [p \in DOMAIN s.data_ |-> FDiv(s.data_[p], d)], !.t_ = 0]

\* the row loop without the overflow check of line 172
RECURSIVE increment_counters_unchecked(_, _, _, _, _, _, _)
increment_counters_unchecked(s, data, item, increment, i, counter_positions, original_counters) ==
    IF i = 4
    THEN [data |-> data, overflow_detected |-> FALSE, i |-> i,
          counter_positions |-> counter_positions, original_counters |-> original_counters]
    ELSE LET pos == position(s, item, i)
         IN increment_counters_unchecked(s, [data EXCEPT ![pos] = FAdd(@, increment)], item,
                                         increment, i + 1, Append(counter_positions, pos),
                                         Append(original_counters, data[pos]))

\* the row loop stopping one row short (i < 3 for i < 4 in line 167)
RECURSIVE increment_counters_three_rows(_, _, _, _, _, _, _)
increment_counters_three_rows(s, data, item, increment, i, counter_positions, original_counters) ==
    IF i = 3
    THEN [data |-> data, overflow_detected |-> FALSE, i |-> i,
          counter_positions |-> counter_positions, original_counters |-> original_counters]
    ELSE LET pos == position(s, item, i)
             v == data[pos]
         IN IF FGtDiff(v, Threshold, increment)
            THEN [data |-> data, overflow_detected |-> TRUE, i |-> i,
                  counter_positions |-> counter_positions,
                  original_counters |-> original_counters]
            ELSE increment_counters_three_rows(s, [data EXCEPT ![pos] = FAdd(v, increment)],
                                               item, increment, i + 1,
                                               Append(counter_positions, pos),
                                               Append(original_counters, v))

\* the row loop of update (lines 160-179)
RECURSIVE increment_counters(_, _, _, _, _, _, _)
increment_counters(s, data, item, increment, i, counter_positions, original_counters) ==
    IF i = 4
    THEN [data |-> data, overflow_detected |-> FALSE, i |-> i,
          counter_positions |-> counter_positions, original_counters |-> original_counters]
    ELSE LET pos == position(s, item, i)
             v == data[pos]
         IN IF FGtDiff(v, Threshold, increment)
            THEN [data |-> data, overflow_detected |-> TRUE, i |-> i,
                  counter_positions |-> counter_positions,
                  original_counters |-> original_counters]
            ELSE increment_counters(s, [data EXCEPT ![pos] = FAdd(v, increment)], item,
                                    increment, i + 1,
                                    Append(counter_positions, pos),
                                    Append(original_counters, v))

\* the rollback of the written counters (lines 182-184)
RECURSIVE rollback(_, _, _, _, _)
rollback(data, counter_positions, original_counters, j, i) ==
    IF j >= i THEN data
    ELSE rollback([data EXCEPT ![counter_positions[j + 1]] = original_counters[j + 1]],
                  counter_positions, original_counters, j + 1, i)

RECURSIVE retry_update(_, _, _)

\* an update whose overflowing attempt hands its incremented t to prune
retry_update_keeps_t(s, item, log) ==
    LET t1 == s.t_ + 1
        increment == f(t1, s.alpha_)
        r == increment_counters(s, s.data_, item, increment, 0, <<>>, <<>>)
    IN IF r.overflow_detected
       THEN LET restored == rollback(r.data, r.counter_positions, r.original_counters, 0, r.i)
                before == [s EXCEPT !.data_ = restored, !.t_ = t1]
                pruned == prune(before)
                log2 == Append(log, [row |-> r.i, started |-> s.data_, written |-> r.data,
                                     handed |-> restored, t |-> before.t_])
            IN IF pruned = s
               THEN [s |-> pruned, returned |-> FALSE, log |-> log2, base |-> s.data_,
                     increment |-> increment]
               ELSE retry_update(pruned, item, log2)
       ELSE [s |-> [s EXCEPT !.data_ = r.data, !.t_ = t1], returned |-> TRUE, log |-> log,
             base |-> s.data_, increment |-> increment]

\* retry_update: (lines 156-189).  The loop is deterministic, so an overflowing
\* attempt whose rollback and prune give back the state it started from repeats
\* for ever: update does not return (returned = FALSE).  log lists, per overflow,
\* the row that detected it, the matrix the attempt started from, the matrix as
\* the row loop left it and the matrix and t handed to prune; base is the matrix
\* the committing attempt started from.
retry_update(s, item, log) ==
    LET t1 == s.t_ + 1
        increment == f(t1, s.alpha_)
        r == increment_counters(s, s.data_, item, increment, 0, <<>>, <<>>)
    IN IF r.overflow_detected
       THEN LET restored == rollback(r.data, r.counter_positions, r.original_counters, 0, r.i)
                before == [s EXCEPT !.data_ = restored, !.t_ = t1 - 1]
                pruned == prune(before)
                log2 == Append(log, [row |-> r.i, started |-> s.data_, written |-> r.data,
                                     handed |-> restored, t |-> before.t_])
            IN IF pruned = s
               THEN [s |-> pruned, returned |-> FALSE, log |-> log2, base |-> s.data_,
                     increment |-> increment]
               ELSE retry_update(pruned, item, log2)
       ELSE [s |-> [s EXCEPT !.data_ = r.data, !.t_ = t1], returned |-> TRUE, log |-> log,
             base |-> s.data_, increment |-> increment]

\* estimate (lines 198-214)
RECURSIVE estimate_rows(_, _, _, _)
estimate_rows(s, item, i, res) ==
    IF i = 4 THEN res
    ELSE estimate_rows(s, item, i + 1,
                       FMin(res, FDiv(s.data_[position(s, item, i)], f(s.t_, s.alpha_))))

estimate(s, item) == estimate_rows(s, item, 0, FLT_MAX)

\* the copy constructor (lines 63-79): t_, adapt_counter_, sum and the counts
\* of the benchmark are not copied and take their default member initializers
copy_constructor(other) ==
    [k_width_ |-> other.k_width_,
     data_ |-> other.data_,
     seeds_ |-> other.seeds_,
     hash |-> other.hash,
     t_ |-> 0,
     alpha_ |-> other.alpha_,
     k_adapt_interval_ |-> other.k_adapt_interval_,
     adapt_counter_ |-> 0,
     k_adapter_ |-> other.k_adapter_,
     sum |-> 0,
     update_count_ |-> 0,
     status |-> "ok"]

\* the copy assignment (lines 96-124): t_, sum and the counts of the benchmark
\* stay those of the sketch assigned to
copy_assignment(this, other) ==
    [this EXCEPT !.k_width_ = other.k_width_,
                 !.data_ = other.data_,
                 !.seeds_ = other.seeds_,
                 !.hash = other.hash,
                 !.k_adapter_ = other.k_adapter_,
                 !.alpha_ = other.alpha_,
                 !.k_adapt_interval_ = other.k_adapt_interval_,
                 !.adapt_counter_ = other.adapt_counter_]

\* an adapt that calls the adapter first and prunes with the alpha it returned
adapt_prune_last(s, a, rnd) ==
    LET normalized_sum == Rat(s.sum, s.k_adapt_interval_)
        s1 == [s EXCEPT !.sum = 0]
    IN IF s.k_adapter_ = "nullptr"
       THEN [s |-> [prune(s1) EXCEPT !.status = "crashed"], a |-> a, called |-> FALSE,
             reward |-> normalized_sum, path |-> "none"]
       ELSE LET c == Adapter_call(a, normalized_sum, s1.alpha_, rnd)
            IN [s |-> [prune([s1 EXCEPT !.alpha_ = c.new_param]) EXCEPT !.adapt_counter_ = 0],
                a |-> c.a, called |-> TRUE, reward |-> normalized_sum, path |-> c.path]

\* adapt (lines 274-280).  With no adapter attached line 278 calls through a
\* null pointer: the process dies there (status "crashed").
adapt(s, a, rnd) ==
    LET p == prune(s)
        normalized_sum == Rat(p.sum, p.k_adapt_interval_)
        p1 == [p EXCEPT !.sum = 0]
    IN IF s.k_adapter_ = "nullptr"
       THEN [s |-> [p1 EXCEPT !.status = "crashed"], a |-> a, called |-> FALSE,
             reward |-> normalized_sum, path |-> "none"]
       ELSE LET c == Adapter_call(a, normalized_sum, p1.alpha_, rnd)
            IN [s |-> [p1 EXCEPT !.alpha_ = c.new_param, !.adapt_counter_ = 0],
                a |-> c.a, called |-> TRUE, reward |-> normalized_sum, path |-> c.path]

\* the trigger with > for >=
adapt_due_late(s) == s.k_adapt_interval_ # 0 /\ s.adapt_counter_ + 1 > s.k_adapt_interval_

\* line 191: k_adapt_interval_ && ++adapt_counter_ >= k_adapt_interval_
adapt_due(s) == s.k_adapt_interval_ # 0 /\ s.adapt_counter_ + 1 >= s.k_adapt_interval_

\* update (lines 153-196)
update(s, a, item, rnd) ==
    LET u == retry_update(s, item, <<>>)
        counted == IF u.s.k_adapt_interval_ # 0
                   THEN [u.s EXCEPT !.adapt_counter_ = @ + 1]
                   ELSE u.s
        ad == adapt(counted, a, rnd)
    IN IF ~u.returned
       THEN [s |-> [u.s EXCEPT !.status = "spinning"], a |-> a, u |-> u,
             adapted |-> FALSE, called |-> FALSE, path |-> "none", reward |-> Rat(0, 1)]
       ELSE IF adapt_due(u.s)
       THEN [s |-> IF ad.s.status = "ok"
                   THEN [ad.s EXCEPT !.update_count_ = @ + 1] ELSE ad.s,
             a |-> ad.a, u |-> u, adapted |-> TRUE, called |-> ad.called, path |-> ad.path,
             reward |-> ad.reward]
       ELSE [s |-> [counted EXCEPT !.update_count_ = @ + 1], a |-> a, u |-> u,
             adapted |-> FALSE, called |-> FALSE, path |-> "none", reward |-> Rat(0, 1)]

\* ------------------------------------------------------------ the sketch under a slow decay
\* With alpha = 10000 * ln 2 / 2 one step of t multiplies f by sqrt 2, not by a
\* power of two.  The counters are then numbers a + b * sqrt 2 with a and b
\* non-negative dyadic numbers, the records [a, b]; alpha is counted in halves
\* of 10000 * ln 2 (alpha_ = 1 is the decay sqrt 2 per update, alpha_ = 2 the
\* decay 2), and the code is the same code.
HZero == [a |-> {}, b |-> {}]
HOne == [a |-> {0}, b |-> {}]
HTwo == [a |-> {1}, b |-> {}]
HThreshold == [a |-> Threshold, b |-> {}]
HFLT_MAX == [a |-> FLT_MAX, b |-> {}]

\* v / 2^m
Shift(v, m) == {e - m : e \in v}

\* f(t, alpha) = exp(alpha * t / 10000) = 2^(alpha_ * t / 2)
f_half(t, alpha) ==
    IF (alpha * t) % 2 = 0 THEN [a |-> {(alpha * t) \div 2}, b |-> {}]
    ELSE [a |-> {}, b |-> {(alpha * t - 1) \div 2}]

HAdd(x, y) == [a |-> FAdd(x.a, y.a), b |-> FAdd(x.b, y.b)]

\* x / d for d a value of f_half: (a + b sqrt 2) / (2^m sqrt 2) = b / 2^m + (a / 2^(m+1)) sqrt 2
HDiv(x, d) ==
    IF d.b = {} THEN [a |-> Shift(x.a, MaxOf(d.a)), b |-> Shift(x.b, MaxOf(d.a))]
    ELSE [a |-> Shift(x.b, MaxOf(d.b)), b |-> Shift(x.a, MaxOf(d.b) + 1)]

\* a * b, every partial sum worked out before the next term is added
RECURSIVE FTimes(_, _)
FTimes(a, b) ==
    IF a = {} THEN {}
    ELSE UNION {FAdd(r, {MaxOf(a) + y : y \in b}) : r \in {FTimes(a \ {MaxOf(a)}, b)}}

\* |a - b|
FDist(a, b) == IF FGt(a, b) THEN FSub(a, b) ELSE FSub(b, a)

\* p > q * sqrt 2 for p, q > 0: by their leading bits where these decide, by
\* the squares p^2 and 2 q^2 otherwise
GtRootTwo(p, q) ==
    IF MaxOf(p) >= MaxOf(q) + 2 THEN TRUE
    ELSE IF MaxOf(p) < MaxOf(q) THEN FALSE
    ELSE FGt(FTimes(p, p), Shift(FTimes(q, q), -1))

\* x > y: when one part is greater and the other less, |x.a - y.a| is set
\* against |x.b - y.b| * sqrt 2 (the two are never equal)
HGt(x, y) ==
    IF ~FGt(y.a, x.a) /\ ~FGt(y.b, x.b) THEN x # y
    ELSE IF ~FGt(x.a, y.a) /\ ~FGt(x.b, y.b) THEN FALSE
    ELSE IF FGt(x.a, y.a) THEN GtRootTwo(FDist(x.a, y.a), FDist(x.b, y.b))
    ELSE ~GtRootTwo(FDist(x.a, y.a), FDist(x.b, y.b))

HMin(x, y) == IF HGt(x, y) THEN y ELSE x

\* the state after construction (lines 45-59), no adapter attached
SlowSketch(size, initial_alpha, seedv, h) ==
    [EvolvingSketchOptim(size, initial_alpha, 0, "nullptr", seedv, h) EXCEPT
        !.data_ = [p \in DOMAIN @ |-> HZero]]

\* a prune that resets t_ and leaves the counters as they are
prune_half_reset_only(s) == [s EXCEPT !.t_ = 0]

\* prune (lines 263-269)
prune_half(s) ==
    LET d == f_half(s.t_, s.alpha_)
    IN [s EXCEPT !.data_ = [p \in DOMAIN s.data_ |-> HDiv(s.data_[p], d)], !.t_ = 0]

\* the row loop of update (lines 160-179); v > PRUNE_THRESHOLD - increment is
\* v + increment > PRUNE_THRESHOLD in exact arithmetic
RECURSIVE increment_counters_half(_, _, _, _, _, _, _)
increment_counters_half(s, data, item, increment, i, counter_positions, original_counters) ==
    IF i = 4
    THEN [data |-> data, overflow_detected |-> FALSE, i |-> i,
          counter_positions |-> counter_positions, original_counters |-> original_counters]
    ELSE LET pos == position(s, item, i)
             v == data[pos]
         IN IF HGt(HAdd(v, increment), HThreshold)
            THEN [data |-> data, overflow_detected |-> TRUE, i |-> i,
                  counter_positions |-> counter_positions,
                  original_counters |-> original_counters]
            ELSE increment_counters_half(s, [data EXCEPT ![pos] = HAdd(v, increment)], item,
                                         increment, i + 1,
                                         Append(counter_positions, pos),
                                         Append(original_counters, v))

\* retry_update: (lines 156-189); prunes counts the overflows that pruned
RECURSIVE retry_update_half(_, _, _)
retry_update_half(s, item, prunes) ==
    LET t1 == s.t_ + 1
        increment == f_half(t1, s.alpha_)
        r == increment_counters_half(s, s.data_, item, increment, 0, <<>>, <<>>)
    IN IF r.overflow_detected
       THEN LET restored == rollback(r.data, r.counter_positions, r.original_counters, 0, r.i)
                pruned == prune_half([s EXCEPT !.data_ = restored, !.t_ = t1 - 1])
            IN IF pruned = s
               THEN [s |-> pruned, returned |-> FALSE, prunes |-> prunes + 1]
               ELSE retry_update_half(pruned, item, prunes + 1)
       ELSE [s |-> [s EXCEPT !.data_ = r.data, !.t_ = t1], returned |-> TRUE, prunes |-> prunes]

\* update (lines 153-196) with adapt_interval = 0
update_half(s, item) ==
    LET u == retry_update_half(s, item, 0)
    IN IF ~u.returned
       THEN [s |-> [u.s EXCEPT !.status = "spinning"], prunes |-> u.prunes]
       ELSE [s |-> [u.s EXCEPT !.update_count_ = @ + 1], prunes |-> u.prunes]

\* estimate (lines 198-214)
RECURSIVE estimate_rows_half(_, _, _, _)
estimate_rows_half(s, item, i, res) ==
    IF i = 4 THEN res
    ELSE estimate_rows_half(s, item, i + 1,
                            HMin(res, HDiv(s.data_[position(s, item, i)], f_half(s.t_, s.alpha_))))

estimate_half(s, item) == estimate_rows_half(s, item, 0, HFLT_MAX)

\* ------------------------------------------------------------ DoublyLinkedList
\* A policy record holds its three lists and heap, the Node objects they link:
\* heap[n] = [value, prev, next] for every allocated node n.  The list
\* operations take the policy record and the names of the lists they work on.
\* Going through a null pointer ends the process (status "crashed").
NULL == 0

EmptyList == [head_ |-> NULL, tail_ |-> NULL, size_ |-> 0]

\* new Node<T>: an address not in use
new_Node(heap) ==
    CHOOSE n \in 1..(Cardinality(DOMAIN heap) + 1) :
        n \notin DOMAIN heap /\ \A m \in 1..(n - 1) : m \in DOMAIN heap

\* delete node
delete_Node(heap, node) == [n \in DOMAIN heap \ {node} |-> heap[n]]

crashed(pol) == [pol EXCEPT !.status = "crashed"]

\* insert: a new node at the head
insert(pol, l, value) ==
    LET node == new_Node(pol.heap)
        list == pol[l]
        linked == [n \in DOMAIN pol.heap \cup {node} |->
                      IF n = node THEN [value |-> value, prev |-> NULL, next |-> list.head_]
                      ELSE IF n = list.head_ THEN [pol.heap[n] EXCEPT !.prev = node]
                      ELSE pol.heap[n]]
    IN IF pol.status # "ok" THEN [pol |-> pol, node |-> NULL]
       ELSE [pol |-> [pol EXCEPT !.heap = linked,
                                 ![l] = [head_ |-> node,
                                         tail_ |-> IF list.head_ = NULL THEN node ELSE list.tail_,
                                         size_ |-> list.size_ + 1]],
             node |-> node]

\* remove_tail
remove_tail(pol, l) ==
    LET list == pol[l]
        node == list.tail_
        tail == pol.heap[node].prev
        unlinked == IF tail # NULL THEN [pol.heap EXCEPT ![tail].next = NULL] ELSE pol.heap
    IN IF pol.status # "ok" THEN pol
       ELSE IF node = NULL THEN crashed(pol)
       ELSE [pol EXCEPT !.heap = delete_Node(unlinked, node),
                        ![l] = [head_ |-> IF tail # NULL THEN list.head_ ELSE NULL,
                                tail_ |-> tail,
                                size_ |-> list.size_ - 1]]

\* the second half of both transfers: node becomes the head of list to
attach_head(heap, node, to_head) ==
    LET linked == IF to_head = NULL THEN [heap EXCEPT ![node].next = NULL]
                  ELSE [heap EXCEPT ![to_head].prev = node, ![node].next = to_head]
    IN [linked EXCEPT ![node].prev = NULL]

\* transfer_node_to_head_of
transfer_node_to_head_of(pol, l, node, to) ==
    LET list == pol[l]
        n == pol.heap[node]
        h1 == IF n.next # NULL THEN [pol.heap EXCEPT ![n.next].prev = n.prev] ELSE pol.heap
        h2 == IF n.prev # NULL THEN [h1 EXCEPT ![n.prev].next = n.next] ELSE h1
    IN IF pol.status # "ok" THEN pol
       ELSE IF node = NULL THEN crashed(pol)
       ELSE [pol EXCEPT !.heap = attach_head(h2, node, pol[to].head_),
                        ![l] = [head_ |-> IF n.prev # NULL THEN list.head_ ELSE n.next,
                                tail_ |-> IF n.next # NULL THEN list.tail_ ELSE n.prev,
                                size_ |-> list.size_ - 1],
                        ![to] = [head_ |-> node,
                                 tail_ |-> IF pol[to].head_ = NULL THEN node ELSE pol[to].tail_,
                                 size_ |-> pol[to].size_ + 1]]

\* transfer_tail_to_head_of; node is the node moved
transfer_tail_to_head_of(pol, l, to) ==
    LET list == pol[l]
        node == list.tail_
        tail == pol.heap[node].prev
        h1 == IF tail # NULL THEN [pol.heap EXCEPT ![tail].next = NULL] ELSE pol.heap
    IN IF pol.status # "ok" THEN [pol |-> pol, node |-> NULL]
       ELSE IF node = NULL THEN [pol |-> crashed(pol), node |-> NULL]
       ELSE [pol |-> [pol EXCEPT !.heap = attach_head(h1, node, pol[to].head_),
                                 ![l] = [head_ |-> IF tail # NULL THEN list.head_ ELSE NULL,
                                         tail_ |-> tail,
                                         size_ |-> list.size_ - 1],
                                 ![to] = [head_ |-> node,
                                          tail_ |-> IF pol[to].head_ = NULL THEN node
                                                    ELSE pol[to].tail_,
                                          size_ |-> pol[to].size_ + 1]],
             node |-> node]

\* a move_to_head that leaves the list as it is
move_to_head_nowhere(pol, l, node) == pol

\* move_to_head
move_to_head(pol, l, node) ==
    LET list == pol[l]
        n == pol.heap[node]
        h1 == IF n.next # NULL THEN [pol.heap EXCEPT ![n.next].prev = n.prev] ELSE pol.heap
        h2 == IF n.prev # NULL THEN [h1 EXCEPT ![n.prev].next = n.next] ELSE h1
        head == IF n.prev # NULL THEN list.head_ ELSE n.next
        tail == IF n.next # NULL THEN list.tail_ ELSE n.prev
        h3 == [h2 EXCEPT ![node].next = head, ![node].prev = NULL]
        h4 == IF head # NULL THEN [h3 EXCEPT ![head].prev = node] ELSE h3
    IN IF pol.status # "ok" \/ node = NULL \/ node = list.head_ THEN pol
       ELSE [pol EXCEPT !.heap = h4,
                        ![l] = [head_ |-> node,
                                tail_ |-> IF tail = NULL THEN node ELSE tail,
                                size_ |-> list.size_]]

\* ------------------------------------------------------------ MockCache
\* put_calls and remove_calls count the calls made to the cache
MockCache(max_size) == [k_max_size_ |-> max_size, keys_ |-> {}, put_calls |-> 0,
                        remove_calls |-> 0]

put(c, key) == [c EXCEPT !.keys_ = @ \cup {key}, !.put_calls = @ + 1]

remove(c, key) == [c EXCEPT !.keys_ = @ \ {key}, !.remove_calls = @ + 1]

contains(c, key) == key \in c.keys_

\* ------------------------------------------------------------ WTinyLFUPolicy
\* static_cast<size_t>(max_size * 0.01) and the conversion of
\* (max_size - k_max_window_size_) * 0.2 to size_t: both drop the fraction
WTinyLFUPolicy(max_size) ==
    [k_max_window_size_ |-> max_size \div 100,
     k_max_probation_size_ |-> (max_size - max_size \div 100) \div 5,
     k_max_protected_size_ |->
         max_size - max_size \div 100 - (max_size - max_size \div 100) \div 5,
     window_list_ |-> EmptyList,
     probation_list_ |-> EmptyList,
     protected_list_ |-> EmptyList,
     heap |-> <<>>,
     key2node_ |-> <<>>,
     status |-> "ok"]

retag(pol, node, type) ==
    IF pol.status # "ok" THEN pol ELSE [pol EXCEPT !.heap[node].value.type = type]

\* key2node_.erase(key)
erase(pol, key) ==
    IF pol.status # "ok" THEN pol
    ELSE [pol EXCEPT !.key2node_ = [k \in DOMAIN pol.key2node_ \ {key} |-> pol.key2node_[k]]]

\* the eviction that stays in the map: key2node_.erase is left out
evict_tail_keep_map(pc, l) ==
    LET evicted_key == pc.pol.heap[pc.pol[l].tail_].value.key
    IN IF pc.pol.status # "ok" THEN pc
       ELSE IF pc.pol[l].tail_ = NULL THEN [pc EXCEPT !.pol = crashed(pc.pol)]
       ELSE [pol |-> remove_tail(pc.pol, l), cache |-> remove(pc.cache, evicted_key)]

\* the eviction that stays in the list: remove_tail is left out
evict_tail_keep_node(pc, l) ==
    LET evicted_key == pc.pol.heap[pc.pol[l].tail_].value.key
    IN IF pc.pol.status # "ok" THEN pc
       ELSE IF pc.pol[l].tail_ = NULL THEN [pc EXCEPT !.pol = crashed(pc.pol)]
       ELSE [pol |-> erase(pc.pol, evicted_key), cache |-> remove(pc.cache, evicted_key)]

\* an eviction that takes the tail of Protected whatever list it is asked for
evict_tail_of_protected(pc, l) ==
    LET evicted_key == pc.pol.heap[pc.pol.protected_list_.tail_].value.key
    IN IF pc.pol.status # "ok" THEN pc
       ELSE IF pc.pol.protected_list_.tail_ = NULL THEN evict_tail_keep_map(pc, l)
       ELSE [pol |-> remove_tail(erase(pc.pol, evicted_key), "protected_list_"),
             cache |-> remove(pc.cache, evicted_key)]

\* lines 77-80 and 83-86: the key of the tail of list l leaves the map, the host
\* cache and the list
evict_tail(pc, l) ==
    LET evicted_key == pc.pol.heap[pc.pol[l].tail_].value.key
    IN IF pc.pol.status # "ok" THEN pc
       ELSE IF pc.pol[l].tail_ = NULL THEN [pc EXCEPT !.pol = crashed(pc.pol)]
       ELSE [pol |-> remove_tail(erase(pc.pol, evicted_key), l),
             cache |-> remove(pc.cache, evicted_key)]

\* a hit that sends the tail of Protected back without its new tag
handle_cache_hit_no_retag(pol, key) ==
    LET node == pol.key2node_[key]
        promoted == retag(transfer_node_to_head_of(pol, "probation_list_", node,
                                                   "protected_list_"),
                          node, "PROTECTED")
        demoted == transfer_tail_to_head_of(promoted, "protected_list_", "probation_list_")
    IN IF pol.heap[node].value.type = "WINDOW"
       THEN move_to_head(pol, "window_list_", node)
       ELSE IF pol.heap[node].value.type = "PROBATION"
       THEN IF promoted.protected_list_.size_ - 1 = promoted.k_max_protected_size_
            THEN demoted.pol
            ELSE promoted
       ELSE move_to_head(pol, "protected_list_", node)

handle_cache_hit_keep_tag(pol, key) ==
    LET node == pol.key2node_[key]
    IN IF pol.heap[node].value.type = "WINDOW"
       THEN move_to_head(pol, "window_list_", node)
       ELSE IF pol.heap[node].value.type = "PROBATION"
       THEN transfer_node_to_head_of(pol, "probation_list_", node, "protected_list_")
       ELSE move_to_head(pol, "protected_list_", node)

\* handle_cache_hit, after sketch_->update(key).  key2node_[key] of a key that
\* is not in the map inserts a null pointer, which the switch goes through.
handle_cache_hit(pol, key) ==
    LET node == pol.key2node_[key]
        promoted == retag(transfer_node_to_head_of(pol, "probation_list_", node,
                                                   "protected_list_"),
                          node, "PROTECTED")
        demoted == transfer_tail_to_head_of(promoted, "protected_list_", "probation_list_")
    IN IF key \notin DOMAIN pol.key2node_
       THEN crashed([pol EXCEPT !.key2node_ =
                        [k \in DOMAIN pol.key2node_ \cup {key} |->
                            IF k = key THEN NULL ELSE pol.key2node_[k]]])
       ELSE IF pol.heap[node].value.type = "WINDOW"
       THEN move_to_head(pol, "window_list_", node)
       ELSE IF pol.heap[node].value.type = "PROBATION"
       THEN IF promoted.protected_list_.size_ - 1 = promoted.k_max_protected_size_
            THEN retag(demoted.pol, demoted.node, "PROBATION")
            ELSE promoted
       ELSE move_to_head(pol, "protected_list_", node)

\* handle_cache_miss, after sketch_->update(key); greater is the outcome of
\* estimate(window tail) > estimate(probation tail), which reads both tails
handle_cache_miss(pol, c, key, greater) ==
    LET pc == [pol |-> pol, cache |-> c]
        moved == transfer_tail_to_head_of(pol, "window_list_", "probation_list_")
        admitted == [pol |-> retag(moved.pol, moved.node, "PROBATION"), cache |-> c]
        made_room ==
            IF pol.window_list_.size_ = pol.k_max_window_size_
            THEN IF pol.probation_list_.size_ = pol.k_max_probation_size_
                 THEN IF pol.window_list_.tail_ = NULL \/ pol.probation_list_.tail_ = NULL
                      THEN [pc EXCEPT !.pol = crashed(pol)]
                      ELSE IF greater
                      THEN evict_tail(admitted, "probation_list_")
                      ELSE evict_tail(pc, "window_list_")
                 ELSE admitted
            ELSE pc
        inserted == insert(made_room.pol, "window_list_", [type |-> "WINDOW", key |-> key])
    IN IF made_room.pol.status # "ok" THEN made_room
       ELSE [pol |-> [inserted.pol EXCEPT !.key2node_ =
                         [k \in DOMAIN inserted.pol.key2node_ \cup {key} |->
                             IF k = key THEN inserted.node ELSE inserted.pol.key2node_[k]]],
             cache |-> put(made_room.cache, key)]

\* ------------------------------------------------------------ the policy driven by requests
\* the requests made so far (scripted and free) and the last one
NoDriver == [steps |-> 0, free |-> 0, last |-> "none", key |-> 0]

\* ------------------------------------------------------------ the sketch driven by a stream
SeedVectors == {<<6, 1, 2, 5>>}
Sizes == {32}

\* hash values of the keys: all in one column (3 = 11 = 19 mod 8), or all apart
Colliding == [k \in Keys |-> 3 + 8 * (k - 1)]
Apart == [k \in Keys |-> 3 + 2 * k]
HashTables == {Colliding, Apart}

EpsAdapter == start_recording_history(EpsilonGreedyAdapter(3, 12, 3, Rat(1, 10), StepFunction))
TsAdapter == SlidingWindowThompsonSamplingAdapter(3, 12, 2, 5, 2)
NoAdapter == [kind |-> "none", arms_ |-> <<0>>]

\* initial alpha, adapt interval, adapter and hash function of the sketches
\* explored
SketchConfigs ==
    [alpha : {1, 8, 12, 24}, interval : {0}, adapter : {NoAdapter}, hash : HashTables]
    \cup [alpha : {8}, interval : {1}, adapter : {NoAdapter}, hash : HashTables]
    \cup [alpha : {12}, interval : {0, 2}, adapter : {EpsAdapter}, hash : HashTables]
    \cup [alpha : {1}, interval : {1}, adapter : {TsAdapter}, hash : {Apart}]

\* what the last call of update did, and the calls made so far: the sketch and
\* the adapter it was called on, the overflows of its attempts, the matrix and
\* t its row loop committed, whether adapt ran, whether the adapter was called
\* and with which reward, and the items of the updates that returned
NoObs == [item |-> 0, before |-> 0, adapter_before |-> 0, log |-> <<>>, base |-> 0,
          committed |-> 0, committed_t |-> 0, increment |-> {}, returned |-> FALSE,
          adapted |-> FALSE, called |-> FALSE, path |-> "none", reward |-> Rat(0, 1),
          adapter_calls |-> 0, stream |-> <<>>]

InitSketch ==
    /\ \E size \in Sizes, c \in SketchConfigs, seedv \in SeedVectors :
          /\ sketch = EvolvingSketchOptim(size, c.alpha, c.interval,
                                          IF c.adapter = NoAdapter THEN "nullptr" ELSE "adapter",
                                          seedv, c.hash)
          /\ adapter = c.adapter
    /\ obs = NoObs
    /\ policy = WTinyLFUPolicy(100)
    /\ cache = MockCache(100)
    /\ driver = NoDriver

\* sketch.update(item)
Update(item, rnd) ==
    /\ sketch.status = "ok"
    /\ sketch.update_count_ < MaxUpdates
    /\ \E r \in {update(sketch, adapter, item, rnd)} :
          /\ sketch' = r.s
          /\ adapter' = r.a
          /\ obs' = [item |-> item, before |-> sketch, adapter_before |-> adapter,
                     log |-> r.u.log, base |-> r.u.base,
                     committed |-> r.u.s.data_, committed_t |-> r.u.s.t_,
                     increment |-> r.u.increment, returned |-> r.u.returned,
                     adapted |-> r.adapted, called |-> r.called, path |-> r.path,
                     reward |-> r.reward,
                     adapter_calls |-> obs.adapter_calls + (IF r.called THEN 1 ELSE 0),
                     stream |-> IF r.s.status = "ok" THEN Append(obs.stream, item)
                                ELSE obs.stream]
    /\ UNCHANGED <<policy, cache, driver>>

\* the workload's sketch.sum++ between two updates; the last step is then no
\* longer an update, so only the running totals of obs are kept
AddSum ==
    /\ sketch.status = "ok"
    /\ sketch.sum < MaxSum
    /\ sketch' = [sketch EXCEPT !.sum = @ + 1]
    /\ obs' = [NoObs EXCEPT !.adapter_calls = obs.adapter_calls, !.stream = obs.stream]
    /\ UNCHANGED <<adapter, policy, cache, driver>>

\* the generators are drawn from only when the adapter is called
DrawsFor(s, a) == IF adapt_due(s) /\ s.k_adapter_ # "nullptr" THEN Draws(a)
                  ELSE {[arm |-> 0, u |-> Rat(0, 1)]}

NextSketch ==
    \/ \E item \in Keys, rnd \in DrawsFor(sketch, adapter) : Update(item, rnd)
    \/ AddSum

SpecSketch == InitSketch /\ [][NextSketch]_vars

\* ------------------------------------------------------------ sketches of every size
\* the seeds gen() gives the rows
WidthSeeds == {<<6, 1, 2, 5>>, <<9, 14, 27, 31>>}

\* the caller keeps the size it asked for
InitWidth ==
    /\ \E size \in 1..MaxSize, seedv \in WidthSeeds, h \in HashTables :
          /\ sketch = EvolvingSketchOptim(size, 1, 0, "nullptr", seedv, h)
          /\ driver = NoDriver @@ [size |-> size]
    /\ adapter = NoAdapter
    /\ obs = NoObs
    /\ policy = WTinyLFUPolicy(100)
    /\ cache = MockCache(100)

SpecWidth == InitWidth /\ [][NextSketch]_vars

\* ------------------------------------------------------------ a sketch and a copy of it
\* driver holds the other sketch (copy), how it was last written (copied) and
\* the sketch it was copied from as it was then (original)
InitCopy ==
    /\ \E c \in SketchConfigs :
          /\ c.adapter = NoAdapter
          /\ sketch = EvolvingSketchOptim(32, c.alpha, c.interval, "nullptr", <<6, 1, 2, 5>>, c.hash)
          /\ driver = NoDriver @@ [copy |-> sketch, copied |-> "none", original |-> sketch]
    /\ adapter = NoAdapter
    /\ obs = NoObs
    /\ policy = WTinyLFUPolicy(100)
    /\ cache = MockCache(100)

\* the sketch assigned to is constructed as the original is and may have taken
\* the updates the original had taken at some moment before the copy
UpdateCopy ==
    /\ driver.copied = "none"
    /\ sketch.status = "ok"
    /\ driver.copy # sketch
    /\ driver' = [driver EXCEPT !.copy = sketch]
    /\ UNCHANGED <<sketch, adapter, obs, policy, cache>>

\* EvolvingSketchOptim copy(sketch)
CopyConstruct ==
    /\ sketch.status = "ok"
    /\ driver' = [driver EXCEPT !.copy = copy_constructor(sketch), !.copied = "constructed",
                                !.original = sketch]
    /\ UNCHANGED <<sketch, adapter, obs, policy, cache>>

\* copy = sketch
CopyAssign ==
    /\ sketch.status = "ok"
    /\ driver' = [driver EXCEPT !.copy = copy_assignment(driver.copy, sketch),
                                !.copied = "assigned", !.original = sketch]
    /\ UNCHANGED <<sketch, adapter, obs, policy, cache>>

\* the original is followed up to its first copy
NextCopy ==
    \/ driver.copied = "none" /\ \E item \in Keys, rnd \in DrawsFor(sketch, adapter) : Update(item, rnd)
    \/ driver.copied = "none" /\ AddSum
    \/ UpdateCopy
    \/ CopyConstruct
    \/ CopyAssign

SpecCopy == InitCopy /\ [][NextCopy]_vars

\* ------------------------------------------------------------ the sketch in the caching benchmark
\* W-TinyLFU_EVO: the sketch has an adapter and an adapt interval of its own
HarnessConfigs ==
    [alpha : {12}, interval : {1, 2, 3}, adapter : {EpsAdapter}, hash : {Apart}]
    \cup [alpha : {1}, interval : {1, 2}, adapter : {TsAdapter}, hash : {Apart}]

InitHarness ==
    /\ \E c \in HarnessConfigs :
          /\ sketch = EvolvingSketchOptim(32, c.alpha, c.interval, "adapter", <<6, 1, 2, 5>>, c.hash)
          /\ adapter = c.adapter
    /\ obs = NoObs
    /\ policy = WTinyLFUPolicy(100)
    /\ cache = MockCache(100)
    /\ driver = NoDriver

\* one request of the benchmark loop (lines 85-94): on a hit on_hit() does
\* sketch->sum++ and handle_cache_hit updates the sketch with the key, on a miss
\* handle_cache_miss updates it; the estimates the policy asks for change nothing
Request(item, hit, rnd) ==
    /\ sketch.status = "ok"
    /\ sketch.update_count_ < MaxUpdates
    /\ \E counted \in {IF hit THEN [sketch EXCEPT !.sum = @ + 1] ELSE sketch} :
       \E r \in {update(counted, adapter, item, rnd)} :
          /\ sketch' = r.s
          /\ adapter' = r.a
          /\ obs' = [item |-> item, before |-> sketch, adapter_before |-> adapter,
                     log |-> r.u.log, base |-> r.u.base,
                     committed |-> r.u.s.data_, committed_t |-> r.u.s.t_,
                     increment |-> r.u.increment, returned |-> r.u.returned,
                     adapted |-> r.adapted, called |-> r.called, path |-> r.path,
                     reward |-> r.reward,
                     adapter_calls |-> obs.adapter_calls + (IF r.called THEN 1 ELSE 0),
                     stream |-> IF r.s.status = "ok" THEN Append(obs.stream, item)
                                ELSE obs.stream]
    /\ UNCHANGED <<policy, cache, driver>>

NextHarness ==
    \E item \in Keys, hit \in BOOLEAN, rnd \in DrawsFor(sketch, adapter) : Request(item, hit, rnd)

SpecHarness == InitHarness /\ [][NextHarness]_vars

\* ------------------------------------------------------------ a stream of distinct keys
\* the n-th update is that of key n.  The decays explored: sqrt 2, 2 and 2^8 per
\* update.  The hash functions: every key in one column, the keys in two
\* columns in turn, and the keys over all eight columns in turn.
StreamKeys == 1..MaxStream
SlowAlphas == {1, 2, 16}
OneColumn == [k \in StreamKeys |-> 3]
TwoColumns == [k \in StreamKeys |-> 3 + 2 * (k % 2)]
EightColumns == [k \in StreamKeys |-> k % 8]
StreamHashes == {OneColumn, TwoColumns, EightColumns}

\* the last key updated and the prunes made so far
NoStream == [item |-> 0, prunes |-> 0]

InitStream ==
    /\ \E alpha \in SlowAlphas, h \in StreamHashes :
          sketch = SlowSketch(32, alpha, <<6, 1, 2, 5>>, h)
    /\ obs = NoStream
    /\ adapter = NoAdapter
    /\ policy = WTinyLFUPolicy(100)
    /\ cache = MockCache(100)
    /\ driver = NoDriver

\* sketch.update(item) for the next key of the stream
Feed(item) ==
    /\ sketch.status = "ok"
    /\ item = sketch.update_count_ + 1
    /\ \E r \in {update_half(sketch, item)} :
          /\ sketch' = r.s
          /\ obs' = [item |-> item, prunes |-> obs.prunes + r.prunes]
    /\ UNCHANGED <<adapter, policy, cache, driver>>

NextStream == \E item \in StreamKeys : Feed(item)

SpecStream == InitStream /\ [][NextStream]_vars

\* ------------------------------------------------------------ the benchmark loop over a policy
MaxSizes == {4, 5, 100, 200}

\* the nodes of a list from head_ along next
RECURSIVE Walk(_, _, _)
Walk(heap, n, fuel) ==
    IF n = NULL \/ fuel = 0 THEN <<>> ELSE <<n>> \o Walk(heap, heap[n].next, fuel - 1)

Nodes(pol, l) == Walk(pol.heap, pol[l].head_, Cardinality(DOMAIN pol.heap))

Lists == {"window_list_", "probation_list_", "protected_list_"}

\* a key that is not cached
FreshKey(c) ==
    CHOOSE k \in 1..(Cardinality(c.keys_) + 1) :
        k \notin c.keys_ /\ \A m \in 1..(k - 1) : m \in c.keys_

\* the scripted request: fill Probation, then promote its tail and refill it
\* until Protected is full, then miss
Script(pol, c) ==
    IF /\ pol.probation_list_.size_ = pol.k_max_probation_size_
       /\ pol.protected_list_.size_ < pol.k_max_protected_size_
       /\ pol.probation_list_.tail_ # NULL
    THEN pol.heap[pol.probation_list_.tail_].value.key
    ELSE FreshKey(c)

\* the free requests: the key at the head, next to the head and at the tail of
\* each list, and a key that is not cached
Candidates(pol, c) ==
    LET ends(l) == {pol[l].head_, pol[l].tail_,
                    IF pol[l].head_ = NULL THEN NULL ELSE pol.heap[pol[l].head_].next}
    IN {pol.heap[n].value.key : n \in UNION {ends(l) : l \in Lists} \ {NULL}}
       \cup {FreshKey(c)}

Scripted == driver.free = 0 /\ driver.steps < WarmupSteps

Requests ==
    (IF Scripted THEN {Script(policy, cache)} ELSE {})
    \cup (IF driver.free < MaxFree THEN Candidates(policy, cache) ELSE {})

Requested(kind, key) ==
    IF Scripted /\ key = Script(policy, cache)
    THEN [driver EXCEPT !.steps = @ + 1, !.last = kind, !.key = key]
    ELSE [driver EXCEPT !.free = @ + 1, !.last = kind, !.key = key]

\* what the last request started from; compared tells whether the two estimates
\* were compared, and greater how the comparison came out
NoRequest == [before |-> 0, cache_before |-> 0, compared |-> FALSE, greater |-> FALSE]

\* the comparison of line 71 is reached with Window and Probation both full
BothFull(pol) ==
    /\ pol.window_list_.size_ = pol.k_max_window_size_
    /\ pol.probation_list_.size_ = pol.k_max_probation_size_

InitPolicy ==
    /\ \E max_size \in MaxSizes :
          /\ policy = WTinyLFUPolicy(max_size)
          /\ cache = MockCache(max_size)
    /\ driver = NoDriver
    /\ sketch = EvolvingSketchOptim(32, 1, 0, "nullptr", <<6, 1, 2, 5>>, [k \in Keys |-> 3])
    /\ adapter = NoAdapter
    /\ obs = NoRequest

\* a request for a cached key (benchmark loop, lines 87-91)
Hit(key) ==
    /\ policy.status = "ok"
    /\ contains(cache, key)
    /\ policy' = handle_cache_hit(policy, key)
    /\ driver' = Requested("hit", key)
    /\ obs' = [NoRequest EXCEPT !.before = policy, !.cache_before = cache]
    /\ UNCHANGED <<cache, sketch, adapter>>

\* a request for a key that is not cached (benchmark loop, lines 92-93)
Miss(key, greater) ==
    /\ policy.status = "ok"
    /\ ~contains(cache, key)
    /\ BothFull(policy) \/ ~greater
    /\ \E r \in {handle_cache_miss(policy, cache, key, greater)} :
          /\ policy' = r.pol
          /\ cache' = r.cache
    /\ driver' = Requested("miss", key)
    /\ obs' = [before |-> policy, cache_before |-> cache, compared |-> BothFull(policy),
               greater |-> greater]
    /\ UNCHANGED <<sketch, adapter>>

NextPolicy ==
    \/ \E key \in Requests : Hit(key)
    \/ \E key \in Requests, greater \in BOOLEAN : Miss(key, greater)

SpecPolicy == InitPolicy /\ [][NextPolicy]_vars

\* ------------------------------------------------------------ the benchmark loop over a trace
\* The trace of scenario S5: MaxDistinct keys once each, then the first HotKeys
\* keys again, Repeats times each, one key after the other or in rounds.
HotKeys == 10
Repeats == 50
Hot == 1..HotKeys
Orders == {"key by key", "in rounds"}

\* how the comparison of the two estimates (line 71) comes out over the run:
\* the Window tail has the greater estimate at every period-th comparison
\* (period 1: every time), or never (period 0)
Periods == {0, 1, 2, 16}

NoTrace == [order |-> "key by key", period |-> 0, inserted |-> 0, pos |-> 0,
            compared |-> 0, kept |-> {}, promoted |-> {}, key |-> 0]

\* for (const auto &req : trace): the key of the next request
req(d) ==
    IF d.inserted < MaxDistinct THEN d.inserted + 1
    ELSE IF d.order = "key by key" THEN (d.pos \div Repeats) + 1
    ELSE (d.pos % HotKeys) + 1

TraceDone(d) == d.inserted = MaxDistinct /\ d.pos = HotKeys * Repeats

greater_estimate(d) == d.period # 0 /\ d.compared % d.period = 0

\* the request is counted; kept is the set of hot keys cached when the last of
\* the distinct keys has been inserted
Served(d, key, c) ==
    IF d.inserted < MaxDistinct
    THEN [d EXCEPT !.inserted = @ + 1, !.key = key,
                   !.kept = IF d.inserted + 1 = MaxDistinct THEN c.keys_ \cap Hot ELSE @]
    ELSE [d EXCEPT !.pos = @ + 1, !.key = key]

InitTrace ==
    /\ policy = WTinyLFUPolicy(100)
    /\ cache = MockCache(100)
    /\ \E order \in Orders, period \in Periods :
          driver = [NoTrace EXCEPT !.order = order, !.period = period]
    /\ sketch = EvolvingSketchOptim(32, 1, 0, "nullptr", <<6, 1, 2, 5>>, [k \in Keys |-> 3])
    /\ adapter = NoAdapter
    /\ obs = NoRequest

\* cache.contains(req.obj_id): policy.handle_cache_hit (lines 87-91)
TraceHit ==
    /\ policy.status = "ok"
    /\ ~TraceDone(driver)
    /\ contains(cache, req(driver))
    /\ policy' = handle_cache_hit(policy, req(driver))
    /\ driver' = [Served(driver, req(driver), cache) EXCEPT !.promoted =
                     IF policy.heap[policy.key2node_[req(driver)]].value.type = "PROBATION"
                     THEN @ \cup {req(driver)} ELSE @]
    /\ obs' = [NoRequest EXCEPT !.before = policy, !.cache_before = cache]
    /\ UNCHANGED <<cache, sketch, adapter>>

\* else: policy.handle_cache_miss (lines 92-94)
TraceMiss ==
    /\ policy.status = "ok"
    /\ ~TraceDone(driver)
    /\ ~contains(cache, req(driver))
    /\ \E r \in {handle_cache_miss(policy, cache, req(driver),
                                   BothFull(policy) /\ greater_estimate(driver))} :
          /\ policy' = r.pol
          /\ cache' = r.cache
          /\ driver' = [Served(driver, req(driver), r.cache) EXCEPT !.compared =
                           IF BothFull(policy) THEN @ + 1 ELSE @]
    /\ obs' = [before |-> policy, cache_before |-> cache, compared |-> BothFull(policy),
               greater |-> BothFull(policy) /\ greater_estimate(driver)]
    /\ UNCHANGED <<sketch, adapter>>

NextTrace ==
    \/ TraceHit
    \/ TraceMiss

SpecTrace == InitTrace /\ [][NextTrace]_vars

\* ------------------------------------------------------------ the hash functions called
\* the values hashed: "", a std::string, a longer std::string, two integers of
\* four units and one of six
HashItems ==
    {[type |-> "literal", value |-> <<>>],
     [type |-> "string", value |-> <<7, 4, 6, 5, 7, 3, 7, 4>>],
     [type |-> "string", value |-> <<7, 4, 6>>],
     [type |-> "integral", value |-> 7, size |-> 4],
     [type |-> "integral", value |-> 6, size |-> 4],
     [type |-> "integral", value |-> 7, size |-> 6]}

\* the default seed and another
HashSeeds == {42, 7}

HashFunctions == {"hash32", "hash64", "hash"}

Hashed(fn, item, seed) ==
    CASE fn = "hash32" -> hash32(item, seed)
      [] fn = "hash64" -> hash64(item, seed)
      [] OTHER -> hash(item, seed)

\* obs is the sequence of the calls made, each with its result
InitHash ==
    /\ obs = <<>>
    /\ driver = NoDriver
    /\ sketch = EvolvingSketchOptim(32, 1, 0, "nullptr", <<6, 1, 2, 5>>, [k \in Keys |-> 3])
    /\ adapter = NoAdapter
    /\ policy = WTinyLFUPolicy(100)
    /\ cache = MockCache(100)

HashCall(fn, item, seed) ==
    /\ Len(obs) < MaxHashCalls
    /\ obs' = Append(obs, [fn |-> fn, item |-> item, seed |-> seed,
                           result |-> Hashed(fn, item, seed)])
    /\ UNCHANGED <<driver, sketch, adapter, policy, cache>>

NextHash == \E fn \in HashFunctions, item \in HashItems, seed \in HashSeeds : HashCall(fn, item, seed)

SpecHash == InitHash /\ [][NextHash]_vars

\* ------------------------------------------------------------ an adapter called directly
\* the adapters explored: epsilon-greedy with the step 1/n and with a constant
\* step, with exploration and without, and Thompson sampling with a window of
\* two rewards; one of them records its history from the start
AdapterConfigs ==
    {EpsilonGreedyAdapter(3, 12, 3, Rat(1, 10), StepFunction),
     EpsilonGreedyAdapter(3, 12, 3, Rat(0, 1), StepFunction),
     EpsilonGreedyAdapter(3, 12, 3, Rat(0, 1), ConstantStep(Rat(1, 2))),
     start_recording_history(EpsilonGreedyAdapter(3, 12, 3, Rat(1, 10), StepFunction)),
     EpsilonGreedyAdapter(3, 12, 3, Rat(1, 10), ConstantStep(Rat(1, 2))),
     SlidingWindowThompsonSamplingAdapter(3, 12, 2, 5, 2)}

\* the objectives passed in: x and 1 - x in turn, x the first
Objectives == {Rat(0, 1), Rat(1, 1), Rat(1, 4), Rat(3, 4)}

Objective(first, n) == IF n % 2 = 0 THEN first ELSE RSub(Rat(1, 1), first)

\* the paths saved to: a file name alone, a file in a directory that exists
\* and a file in a directory that does not
Paths == {<<"history.csv">>, <<"tmp", "history.csv">>, <<"output", "history.csv">>}

NoFiles == [dirs |-> {<<"tmp">>}, files |-> <<>>]

\* the caller's side: the calls and other operations made, the parameter it
\* holds, the file system, and for the properties the pairs of the calls made
\* since recording started (valid while no clear_history came between), the
\* rewards handed to each arm's window and the arm the first call picked
NoCaller(a, first) == [calls |-> 0, ops |-> 0, first |-> first, param |-> 1, fs |-> NoFiles,
                       since |-> <<>>, cleared |-> FALSE, fed |-> [i \in DOMAIN a.arms_ |-> <<>>],
                       first_arm |-> -1]

\* what the last operation was and what it started from
NoOp == [op |-> "none", before |-> 0, obj |-> Rat(0, 1), rnd |-> 0, new_param |-> 0,
         path |-> "none", fs_before |-> NoFiles, file |-> <<>>, threw |-> "nothing"]

InitAdapter ==
    /\ adapter \in AdapterConfigs
    /\ \E first \in Objectives : driver = NoCaller(adapter, first)
    /\ obs = NoOp
    /\ sketch = EvolvingSketchOptim(32, 1, 0, "nullptr", <<6, 1, 2, 5>>, [k \in Keys |-> 3])
    /\ policy = WTinyLFUPolicy(100)
    /\ cache = MockCache(100)

\* the draws of a call: those of Draws, with u = epsilon, the least u that
\* exploits, in the place of u = 1/2
CallDraws(a) ==
    IF a.kind = "EpsilonGreedy" /\ ~a.first_update_
    THEN {d \in Draws(a) : RLt(d.u, a.k_epsilon_)} \cup [arm : {1}, u : {a.k_epsilon_}]
    ELSE Draws(a)

\* new_param = adapter(obj, param)
Call(obj, rnd) ==
    /\ driver.calls < MaxCalls
    /\ obj = Objective(driver.first, driver.calls)
    /\ \E c \in {Adapter_call(adapter, obj, driver.param, rnd)} :
          /\ adapter' = c.a
          /\ obs' = [NoOp EXCEPT !.op = "call", !.before = adapter, !.obj = obj, !.rnd = rnd,
                                 !.new_param = c.new_param, !.path = c.path,
                                 !.fs_before = driver.fs]
          /\ driver' = [driver EXCEPT
                           !.calls = @ + 1,
                           !.param = c.new_param,
                           !.first_arm = IF c.path = "disturb_param"
                                         THEN c.a.current_arm_ ELSE @,
                           !.since = IF adapter.recording_history_
                                     THEN Append(@, <<obj, c.new_param>>) ELSE @,
                           !.fed = IF adapter.kind = "Thompson" /\ c.path = "adapt"
                                   THEN [@ EXCEPT ![adapter.current_arm_] =
                                            Append(@, pow_inv(obj, adapter.k_reward_scaling_))]
                                   ELSE @]
    /\ UNCHANGED <<sketch, policy, cache>>

StartRecording ==
    /\ driver.ops < MaxOps
    /\ adapter' = start_recording_history(adapter)
    /\ obs' = [NoOp EXCEPT !.op = "start_recording_history", !.before = adapter,
                           !.fs_before = driver.fs]
    /\ driver' = [driver EXCEPT !.ops = @ + 1, !.since = <<>>, !.cleared = FALSE]
    /\ UNCHANGED <<sketch, policy, cache>>

StopRecording ==
    /\ driver.ops < MaxOps
    /\ adapter.recording_history_
    /\ adapter' = stop_recording_history(adapter)
    /\ obs' = [NoOp EXCEPT !.op = "stop_recording_history", !.before = adapter,
                           !.fs_before = driver.fs]
    /\ driver' = [driver EXCEPT !.ops = @ + 1]
    /\ UNCHANGED <<sketch, policy, cache>>

ClearHistory ==
    /\ driver.ops < MaxOps
    /\ adapter.history_ # <<>>
    /\ adapter' = clear_history(adapter)
    /\ obs' = [NoOp EXCEPT !.op = "clear_history", !.before = adapter,
                           !.fs_before = driver.fs]
    /\ driver' = [driver EXCEPT !.ops = @ + 1, !.cleared = TRUE]
    /\ UNCHANGED <<sketch, policy, cache>>

\* adapter.save_history(path); an exception leaves the adapter as it was
SaveHistory(path) ==
    /\ driver.ops < MaxOps
    /\ \E r \in {save_history(adapter, driver.fs, path)} :
          /\ obs' = [NoOp EXCEPT !.op = "save_history", !.before = adapter,
                                 !.fs_before = driver.fs, !.file = path, !.threw = r.threw]
          /\ driver' = [driver EXCEPT !.ops = @ + 1, !.fs = r.fs]
    /\ UNCHANGED <<adapter, sketch, policy, cache>>

NextAdapter ==
    \/ \E obj \in Objectives, rnd \in CallDraws(adapter) : Call(obj, rnd)
    \/ StartRecording
    \/ StopRecording
    \/ ClearHistory
    \/ \E path \in Paths : SaveHistory(path)

SpecAdapter == InitAdapter /\ [][NextAdapter]_vars

\* ------------------------------------------------------------ adapters of one, two and three arms
\* the grids constructed: min_param, max_param and num_arms
ArmGrids == {<<3, 12, 1>>, <<3, 3, 1>>, <<3, 12, 2>>, <<3, 12, 3>>}

ArmConfigs ==
    UNION {{[min_param |-> g[1], max_param |-> g[2],
             adapter |-> EpsilonGreedyAdapter(g[1], g[2], g[3], Rat(1, 10), StepFunction)],
            [min_param |-> g[1], max_param |-> g[2],
             adapter |-> start_recording_history(
                             EpsilonGreedyAdapter(g[1], g[2], g[3], Rat(1, 10), StepFunction))],
            [min_param |-> g[1], max_param |-> g[2],
             adapter |-> SlidingWindowThompsonSamplingAdapter(g[1], g[2], g[3], 5, 2)]} :
           g \in ArmGrids}

\* the caller also keeps the bounds it constructed the adapter with
InitArms ==
    /\ \E config \in ArmConfigs, first \in Objectives :
          /\ adapter = config.adapter
          /\ driver = NoCaller(adapter, first)
                         @@ [min_param |-> config.min_param, max_param |-> config.max_param]
    /\ obs = NoOp
    /\ sketch = EvolvingSketchOptim(32, 1, 0, "nullptr", <<6, 1, 2, 5>>, [k \in Keys |-> 3])
    /\ policy = WTinyLFUPolicy(100)
    /\ cache = MockCache(100)

SpecArms == InitArms /\ [][NextAdapter]_vars

\* ------------------------------------------------------------ a sketch with an adapter of one, two or three arms
\* the sketch starts with an alpha of its own choosing; the caller keeps the
\* bounds it constructed the adapter with
InitGrid ==
    /\ \E config \in ArmConfigs, alpha \in {1, 12}, interval \in {1, 2} :
          /\ sketch = EvolvingSketchOptim(32, alpha, interval, "adapter", <<6, 1, 2, 5>>, Apart)
          /\ adapter = config.adapter
          /\ driver = NoDriver @@ [min_param |-> config.min_param,
                                   max_param |-> config.max_param]
    /\ obs = NoObs
    /\ policy = WTinyLFUPolicy(100)
    /\ cache = MockCache(100)

\* once alpha is not a number every counter written is not a number either:
\* the sketch is followed up to there
NextGrid == sketch.alpha_ # NaN /\ NextSketch

SpecGrid == InitGrid /\ [][NextGrid]_vars

\* ------------------------------------------------------------ two adapters fed the same calls
\* std::mt19937: the numbers it gives are a function of its seed alone.  The
\* generator is cut down to sixteen states, each the successor of another.
mt19937(state) == (state * 5 + 3) % 16

\* std::uniform_real_distribution<double>{0.0, 1.0} and
\* std::uniform_int_distribution<size_t>{0, k_num_arms_ - 1} of a number drawn
real_dist_(number) == Rat(number, 16)
int_dist_(a, number) == number % a.k_num_arms_

\* the values std::random_device can give
RandomDevice == 0..3

\* the draws of one call of an epsilon-greedy adapter whose rng_ is in state
\* rng: disturb_param seeds a generator of its own from device and leaves rng_
\* alone; adapt draws u from rng_, and the arm too when it explores
drawn(a, rng, device) ==
    IF a.first_update_
    THEN [rnd |-> [arm |-> int_dist_(a, mt19937(device)), u |-> Rat(0, 1)], rng |-> rng]
    ELSE IF RLt(real_dist_(mt19937(rng)), a.k_epsilon_)
    THEN [rnd |-> [arm |-> int_dist_(a, mt19937(mt19937(rng))),
                   u |-> real_dist_(mt19937(rng))],
          rng |-> mt19937(mt19937(rng))]
    ELSE [rnd |-> [arm |-> 0, u |-> real_dist_(mt19937(rng))], rng |-> mt19937(rng)]

\* the second adapter, the seed and the state of each rng_, the parameter each
\* caller holds and the arms returned to each so far
NoTwin(a, first, seeds) ==
    [calls |-> 0, first |-> first, twin |-> a, seed |-> seeds, rng |-> seeds,
     param |-> <<1, 1>>, returned |-> <<<<>>, <<>>>>]

\* both adapters are constructed alike; rng_{std::random_device{}()} seeds each
InitTwin ==
    /\ adapter \in {EpsilonGreedyAdapter(3, 12, 3, Rat(1, 10), StepFunction),
                    EpsilonGreedyAdapter(3, 12, 3, Rat(1, 4), ConstantStep(Rat(1, 2)))}
    /\ \E first \in Objectives, seeds \in RandomDevice \X RandomDevice :
          driver = NoTwin(adapter, first, seeds)
    /\ obs = NoOp
    /\ sketch = EvolvingSketchOptim(32, 1, 0, "nullptr", <<6, 1, 2, 5>>, [k \in Keys |-> 3])
    /\ policy = WTinyLFUPolicy(100)
    /\ cache = MockCache(100)

\* the same objective is passed to both adapters, each with the parameter it
\* returned last
TwinCall(obj, devices) ==
    /\ driver.calls < MaxCalls
    /\ obj = Objective(driver.first, driver.calls)
    /\ \E d1 \in {drawn(adapter, driver.rng[1], devices[1])},
          d2 \in {drawn(driver.twin, driver.rng[2], devices[2])} :
          \E c1 \in {Adapter_call(adapter, obj, driver.param[1], d1.rnd)},
             c2 \in {Adapter_call(driver.twin, obj, driver.param[2], d2.rnd)} :
             /\ adapter' = c1.a
             /\ driver' = [driver EXCEPT
                              !.calls = @ + 1,
                              !.twin = c2.a,
                              !.rng = <<d1.rng, d2.rng>>,
                              !.param = <<c1.new_param, c2.new_param>>,
                              !.returned =
                                  <<Append(@[1], <<c1.a.current_arm_, c1.new_param>>),
                                    Append(@[2], <<c2.a.current_arm_, c2.new_param>>)>>]
             /\ obs' = [NoOp EXCEPT !.op = "call", !.before = adapter, !.obj = obj,
                                    !.rnd = d1.rnd, !.new_param = c1.new_param,
                                    !.path = c1.path]
    /\ UNCHANGED <<sketch, policy, cache>>

NextTwin == \E obj \in Objectives, devices \in RandomDevice \X RandomDevice : TwinCall(obj, devices)

SpecTwin == InitTwin /\ [][NextTwin]_vars

\* ------------------------------------------------------------ properties of the sketch
\* an update has been called and has come back
UpdateReturned == obs.item # 0 /\ sketch.status = "ok"

\* the cells of item
Cells(s, item) == {position(s, item, i) : i \in 0..3}

C2_UpdateAtomic ==
    obs.item # 0 =>
        /\ \A n \in 1..Len(obs.log) :
              /\ obs.log[n].handed = obs.log[n].started
              /\ obs.log[n].started = IF n = 1 THEN obs.before.data_
                                      ELSE prune([obs.before EXCEPT
                                                     !.data_ = obs.log[n - 1].handed,
                                                     !.t_ = obs.log[n - 1].t]).data_
              /\ \E rows \in {{position(obs.before, obs.item, i) : i \in 0..(obs.log[n].row - 1)}} :
                    \A p \in DOMAIN obs.log[n].written :
                        p \notin rows => obs.log[n].written[p] = obs.log[n].started[p]
        /\ obs.returned =>
              \E cells \in {Cells(obs.before, obs.item)} :
                  obs.committed = [p \in DOMAIN obs.base |->
                                      IF p \in cells THEN FAdd(obs.base[p], obs.increment)
                                      ELSE obs.base[p]]

\* an update on a non-empty matrix that detected an overflow, pruned and then
\* committed its increment
C2_Witness ==
    /\ UpdateReturned
    /\ obs.log # <<>>
    /\ \E p \in DOMAIN obs.base : obs.base[p] # {}
    /\ obs.committed # obs.base

\* C3: every call of update returns: the prune-and-retry loop ends.
C3_UpdateTerminates == sketch.status # "spinning"

\* the sketches handed to prune by the last update: one per overflow, and the
\* one adapt starts from
PruneInputs ==
    {[obs.before EXCEPT !.data_ = obs.log[n].handed, !.t_ = obs.log[n].t] :
        n \in 1..Len(obs.log)}
    \cup (IF obs.adapted
          THEN {[obs.before EXCEPT !.data_ = obs.committed, !.t_ = obs.committed_t,
                                   !.adapt_counter_ = @ + 1]}
          ELSE {})

\* q orders the estimates of any two keys as s does
SameOrder(s, q) ==
    \E es \in {[k \in Keys |-> estimate(s, k)]}, eq \in {[k \in Keys |-> estimate(q, k)]} :
        \A A, B \in Keys : FGt(es[A], es[B]) <=> FGt(eq[A], eq[B])

\* any two counters have the same ratio in q as in s: q[p1] * s[p2] = q[p2] * s[p1]
\* for all cells p1, p2, checked once per pair of values
SameRatios(s, q) ==
    \E cells \in {{<<s.data_[p], q.data_[p]>> : p \in DOMAIN s.data_}} :
        \A c1, c2 \in cells : FMul(c1[2], c2[1]) = FMul(c2[2], c1[1])

\* C6: a prune changes the sign of estimate(A) - estimate(B) for no two keys,
\* keeps the ratio of any two counters, and apart from the counters changes
\* only t, which it sets to 0.
C6_PrunePreservesOrder ==
    \A s \in PruneInputs :
        \E q \in {prune(s)} :
            /\ SameOrder(s, q)
            /\ SameRatios(s, q)
            /\ q = [s EXCEPT !.data_ = q.data_, !.t_ = 0]

\* an update that returned after a prune of a matrix in which two keys had
\* different non-zero estimates
C6_Witness ==
    /\ UpdateReturned
    /\ \E s \in PruneInputs : \E A, B \in Keys :
          /\ estimate(s, B) # {}
          /\ FGt(estimate(s, A), estimate(s, B))

\* C20: t goes up by one per update that returns.  An attempt that overflows
\* hands to prune the t it started from (its increment is undone); an update
\* that neither prunes nor adapts leaves t = t_before + 1; one that returns
\* after an overflow prune has committed its row loop at t = 1; and t is 0
\* after an update that also ran adapt.
C20_TimeSteps ==
    obs.item # 0 =>
        /\ \A n \in 1..Len(obs.log) : obs.log[n].t = IF n = 1 THEN obs.before.t_ ELSE 0
        /\ UpdateReturned =>
              /\ obs.committed_t = IF obs.log = <<>> THEN obs.before.t_ + 1 ELSE 1
              /\ sketch.t_ = IF obs.adapted THEN 0 ELSE obs.committed_t

\* an update that started at t >= 2, overflowed, pruned, retried and returned
\* without adapting
C20_Witness ==
    /\ UpdateReturned
    /\ obs.log # <<>>
    /\ obs.before.t_ >= 2
    /\ ~obs.adapted
    /\ sketch.t_ = 1

\* C21: adapt runs prune first (the counters are divided by f(t, alpha) of the
\* alpha in force before the call), then hands the adapter the reward
\* sum / adapt_interval and that alpha, stores the value the adapter returns
\* as the new alpha, and leaves sum = 0, the adapt counter = 0 and t = 0.
C21_AdaptOrder ==
    (UpdateReturned /\ obs.adapted /\ obs.called) =>
        \E q \in {prune([obs.before EXCEPT !.data_ = obs.committed, !.t_ = obs.committed_t])} :
            /\ sketch.data_ = q.data_
            /\ obs.reward = Rat(obs.before.sum, obs.before.k_adapt_interval_)
            /\ adapter.last_obj_ = obs.reward
            /\ adapter.last_param_ = obs.before.alpha_
            /\ sketch.alpha_ = adapter.arms_[adapter.current_arm_]
            /\ sketch.sum = 0
            /\ sketch.adapt_counter_ = 0
            /\ sketch.t_ = 0

\* an adapt with a sum gathered since the last one, on counters that its prune
\* divided, from which the adapter returned another alpha
C21_Witness ==
    /\ UpdateReturned
    /\ obs.adapted
    /\ obs.called
    /\ obs.before.sum > 0
    /\ sketch.alpha_ # obs.before.alpha_
    /\ sketch.data_ # obs.committed

\* the keys updated so far
Updated == {obs.stream[j] : j \in 1..Len(obs.stream)}

\* the column hash(item) % k_width_ of row 0 (lines 165 and 202)
Column(s, item) == s.hash[item] % s.k_width_

\* C23 as stated: in a sketch with no adapter, a key that was never passed to
\* update has the estimate 0.
C23_UnseenIsZero ==
    (sketch.status = "ok" /\ sketch.k_adapter_ = "nullptr") =>
        \A k \in Keys \ Updated : estimate(sketch, k) = {}

\* C23: in a sketch with no adapter, a key that was never passed to update has
\* the estimate 0 when its column hash % width differs from that of every
\* updated key; when an updated key has the same column, the two keys have the
\* same four cells and the key that was never updated has that key's estimate,
\* which is not 0.
C23_UnseenApartIsZero ==
    (sketch.status = "ok" /\ sketch.k_adapter_ = "nullptr") =>
        \A k \in Keys \ Updated :
            \E est \in {estimate(sketch, k)} :
                /\ (\A j \in Updated : Column(sketch, j) # Column(sketch, k)) => est = {}
                /\ \A j \in Updated :
                      Column(sketch, j) = Column(sketch, k) =>
                          est # {} /\ est = estimate(sketch, j)

\* after two or more updates of one key, a key in another column that was
\* never updated has the estimate 0
C23_Witness ==
    /\ UpdateReturned
    /\ sketch.k_adapter_ = "nullptr"
    /\ Len(obs.stream) >= 2
    /\ \E k \in Keys \ Updated :
          /\ \A j \in Updated : Column(sketch, j) # Column(sketch, k)
          /\ estimate(sketch, k) = {}
          /\ estimate(sketch, obs.item) # {}

\* the decayed count of the column of key n after the stream 1..n of distinct
\* keys: the sum of 1 / f(n - j, alpha) over the keys j <= n of that column
RECURSIVE DecayedColumn(_, _, _)
DecayedColumn(s, n, j) ==
    IF j > n THEN HZero
    ELSE CHOOSE sum \in {HAdd(rest, IF Column(s, j) = Column(s, n)
                                    THEN HDiv(HOne, f_half(n - j, s.alpha_)) ELSE HZero) :
                            rest \in {DecayedColumn(s, n, j + 1)}} : TRUE

\* the stream is long enough to force a prune: f(n, alpha) is above the threshold
LongStream == HGt(f_half(sketch.update_count_, sketch.alpha_), HThreshold)

RECURSIVE DecayedCount(_, _, _, _)
DecayedCount(stream, k, alpha, from) ==
    IF from > Len(stream) THEN {}
    ELSE FAdd(DecayedCount(stream, k, alpha, from + 1),
              IF stream[from] = k THEN FDiv(f(from, alpha), f(Len(stream), alpha)) ELSE {})

\* k has a cell that another updated key has too
Shares(s, k, stream) ==
    \E j \in 1..Len(stream) : stream[j] # k /\ Cells(s, stream[j]) \cap Cells(s, k) # {}

\* C7: while alpha is fixed (no adapter has been called), after any updates and
\* prunes the estimate of a key is never below its exact time-decayed count,
\* and equals it when the key shares no cell with another updated key.
C7_EstimateIsDecayedCount ==
    (sketch.status = "ok" /\ obs.adapter_calls = 0) =>
        \A k \in Keys :
            \E est \in {estimate(sketch, k)},
               count \in {DecayedCount(obs.stream, k, sketch.alpha_, 1)} :
                /\ ~FGt(count, est)
                /\ ~Shares(sketch, k, obs.stream) => est = count

\* a sketch without adapter in which a key was updated twice, the second time
\* after a prune, and shares its cells with no other updated key
C7_Witness ==
    /\ UpdateReturned
    /\ sketch.k_adapter_ = "nullptr"
    /\ obs.log # <<>>
    /\ Len(obs.stream) >= 2
    /\ obs.stream[1] = obs.item
    /\ ~Shares(sketch, obs.item, obs.stream)
    /\ estimate(sketch, obs.item) = DecayedCount(obs.stream, obs.item, sketch.alpha_, 1)

\* C8: with an adapter attached and adapt_interval = n > 0, the adapter has been
\* called once per n completed updates, and the update that just returned
\* called it exactly when it was the n-th, 2n-th, ... one, whether or not it
\* had to prune and retry.
C8_AdapterEveryInterval ==
    (sketch.status = "ok" /\ sketch.k_adapter_ # "nullptr" /\ sketch.k_adapt_interval_ > 0) =>
        /\ obs.adapter_calls = sketch.update_count_ \div sketch.k_adapt_interval_
        /\ obs.item # 0 =>
              (obs.called <=> sketch.update_count_ % sketch.k_adapt_interval_ = 0)

\* the n-th update, n > 1, overflowed, pruned, retried and called the adapter
C8_Witness ==
    /\ UpdateReturned
    /\ sketch.k_adapt_interval_ > 1
    /\ sketch.update_count_ = sketch.k_adapt_interval_
    /\ obs.log # <<>>
    /\ obs.called
    /\ obs.adapter_calls = 1

\* C9: with adapt_interval = 0, or with no adapter attached, an update goes
\* through no adapter, leaves alpha as it was and does not reset sum.
C9_NoAdapterInert ==
    (obs.item # 0 /\ (obs.before.k_adapt_interval_ = 0 \/ obs.before.k_adapter_ = "nullptr")) =>
        /\ sketch.status # "crashed"
        /\ ~obs.called
        /\ sketch.alpha_ = obs.before.alpha_
        /\ sketch.sum = obs.before.sum

ArmStatistics(a) == <<a.estimates_, a.updated_counts_, a.arm_histories_, a.total_pulls_>>

\* C10: a call of the adapter goes through disturb_param exactly when it is the
\* adapter's first call, and through adapt otherwise; the first call returns
\* one of the arms, leaves every arm statistic as it was, and appends the pair
\* (objective, returned parameter) to the history exactly when recording is on.
C10_FirstCallDisturbs ==
    obs.called =>
        /\ (obs.path = "disturb_param") <=> obs.adapter_before.first_update_
        /\ obs.adapter_before.first_update_ <=> (obs.adapter_calls = 1)
        /\ obs.path \in {"disturb_param", "adapt"}
        /\ ~adapter.first_update_
        /\ obs.path = "disturb_param" =>
              /\ \E i \in DOMAIN adapter.arms_ : sketch.alpha_ = adapter.arms_[i]
              /\ ArmStatistics(adapter) = ArmStatistics(obs.adapter_before)
              /\ adapter.history_ =
                    IF obs.adapter_before.recording_history_
                    THEN Append(obs.adapter_before.history_, <<obs.reward, sketch.alpha_>>)
                    ELSE obs.adapter_before.history_

\* the first call of an adapter that records its history
C10_Witness ==
    /\ obs.called
    /\ obs.path = "disturb_param"
    /\ adapter.recording_history_
    /\ Len(adapter.history_) = 1

\* ------------------------------------------------------------ properties of the adapters
\* the last n elements of a sequence, all of them when it has fewer
LastN(seq, n) == IF Len(seq) <= n THEN seq ELSE SubSeq(seq, Len(seq) - n + 1, Len(seq))

\* C11: after any calls of a sliding-window Thompson adapter with window W each
\* arm holds at most W rewards, and they are the last ones handed to that arm,
\* in the order of their arrival (the oldest is the one given up).
C11_ThompsonWindow ==
    adapter.kind = "Thompson" =>
        \A i \in DOMAIN adapter.arms_ :
            /\ Len(adapter.arm_histories_[i]) <= adapter.k_window_size_
            /\ adapter.arm_histories_[i] = LastN(driver.fed[i], adapter.k_window_size_)

\* an arm that was handed more rewards than its window holds, the first of
\* them different from the second
C11_Witness ==
    /\ adapter.kind = "Thompson"
    /\ obs.op = "call"
    /\ \E i \in DOMAIN adapter.arms_ :
          /\ Len(driver.fed[i]) > adapter.k_window_size_
          /\ driver.fed[i][1] # driver.fed[i][2]
          /\ Len(adapter.arm_histories_[i]) = adapter.k_window_size_

\* the last operation was a call that went through the epsilon-greedy adapt
EpsilonGreedyAdapted ==
    obs.op = "call" /\ obs.before.kind = "EpsilonGreedy" /\ obs.path = "adapt"

\* the arms whose estimate is the largest
BestArms(a) ==
    {i \in DOMAIN a.estimates_ : \A j \in DOMAIN a.estimates_ : ~RLt(a.estimates_[i], a.estimates_[j])}

\* C16: a call of the epsilon-greedy adapter that is not its first changes the
\* estimate of the current arm a alone, to Q_a + step * (reward - Q_a), where
\* step is the constant or, n_a having been incremented, 1 / n_a; no other count
\* changes; then it returns the alpha of the arm drawn when u < epsilon, and
\* of an arm with the largest (updated) estimate otherwise.
C16_EpsilonGreedyUpdate ==
    EpsilonGreedyAdapted =>
        \E cur \in {obs.before.current_arm_} :
            \E n \in {obs.before.updated_counts_[cur] + 1} :
                \E step \in {IF obs.before.k_is_step_constant_ THEN obs.before.k_step_constant_ ELSE Rat(1, n)} :
                    /\ adapter.estimates_ =
                          [obs.before.estimates_ EXCEPT
                              ![cur] = RAdd(@, RMul(step, RSub(obs.obj, @)))]
                    /\ adapter.updated_counts_ =
                          IF obs.before.k_is_step_constant_ THEN obs.before.updated_counts_
                          ELSE [obs.before.updated_counts_ EXCEPT ![cur] = n]
                    /\ adapter.arms_ = obs.before.arms_
                    /\ IF RLt(obs.rnd.u, obs.before.k_epsilon_)
                       THEN adapter.current_arm_ = obs.rnd.arm
                       ELSE adapter.current_arm_ \in BestArms(adapter)
                    /\ obs.new_param = adapter.arms_[adapter.current_arm_]

\* a second reward for an arm, different from its estimate, under the step
\* 1 / n, followed by the choice of the best arm
C16_Witness ==
    /\ EpsilonGreedyAdapted
    /\ ~obs.before.k_is_step_constant_
    /\ adapter.updated_counts_[obs.before.current_arm_] = 2
    /\ adapter.estimates_[obs.before.current_arm_] = Rat(1, 2)
    /\ ~RLt(obs.rnd.u, obs.before.k_epsilon_)

\* C17: when several arms share the largest estimate, the exploit step picks
\* the one with the smallest index.
C17_TieToSmallestIndex ==
    (EpsilonGreedyAdapted /\ ~RLt(obs.rnd.u, obs.before.k_epsilon_)) =>
        /\ adapter.current_arm_ \in BestArms(adapter)
        /\ \A i \in BestArms(adapter) : adapter.current_arm_ <= i

\* two arms share the largest estimate, arm 0 is not one of them, and the
\* exploit step picked the first of the two
C17_Witness ==
    /\ EpsilonGreedyAdapted
    /\ ~RLt(obs.rnd.u, obs.before.k_epsilon_)
    /\ Cardinality(BestArms(adapter)) = 2
    /\ 0 \notin BestArms(adapter)
    /\ adapter.current_arm_ = 1

\* C18: a call made while recording is on, the first call included, appends the
\* one pair (objective passed in, parameter returned) to the end of the
\* history; so while recording is on and the history was not cleared, the
\* history is the sequence of the pairs of the calls made since recording
\* started, one per call, in call order.
C18_HistoryAppends ==
    /\ (obs.op = "call" /\ obs.before.recording_history_) =>
          adapter.history_ = Append(obs.before.history_, <<obs.obj, obs.new_param>>)
    /\ (adapter.recording_history_ /\ ~driver.cleared) => adapter.history_ = driver.since

\* every call so far, the first included, was made while recording and the
\* history holds their three or more pairs
C18_Witness ==
    /\ obs.op = "call"
    /\ adapter.recording_history_
    /\ driver.ops = 0
    /\ driver.calls >= 3
    /\ Len(adapter.history_) = driver.calls
    /\ adapter.history_[1][1] # adapter.history_[2][1]

\* reading the file back: the value of a decimal text, and the pair of a line
DigitValue(c) == CHOOSE v \in 0..9 : Digits[v + 1] = c

RECURSIVE NatValue(_)
NatValue(text) ==
    IF text = <<>> THEN 0
    ELSE 10 * NatValue(SubSeq(text, 1, Len(text) - 1)) + DigitValue(text[Len(text)])

\* the place of the first c in text, 0 when there is none
IndexOf(text, c) ==
    IF \E i \in 1..Len(text) : text[i] = c
    THEN CHOOSE i \in 1..Len(text) : text[i] = c /\ \A j \in 1..(i - 1) : text[j] # c
    ELSE 0

parse_double(text) ==
    LET p == IndexOf(text, ".")
        whole == SubSeq(text, 1, p - 1)
        fraction == SubSeq(text, p + 1, Len(text))
    IN IF p = 0 THEN Rat(NatValue(text), 1)
       ELSE Rat(NatValue(whole) * (10 ^ Len(fraction)) + NatValue(fraction), 10 ^ Len(fraction))

parse_line(line) ==
    LET p == IndexOf(line, ",")
    IN <<parse_double(SubSeq(line, 1, p - 1)), parse_double(SubSeq(line, p + 1, Len(line)))>>

\* the pairs of the lines after the header
read_csv(lines) == [i \in 1..(Len(lines) - 1) |-> parse_line(lines[i + 1])]

\* C19: save_history(path) writes the header line objective,parameter and after
\* it one line per recorded pair, in the order of the history; it leaves the
\* history in memory as it was; and the file read back gives the pairs of the
\* history, value for value.
C19_HistoryRoundTrip ==
    obs.op = "save_history" =>
        /\ obs.threw = "nothing"
        /\ obs.file \in DOMAIN driver.fs.files
        /\ adapter.history_ = obs.before.history_
        /\ \E lines \in {driver.fs.files[obs.file]} :
              /\ Len(lines) = Len(adapter.history_) + 1
              /\ lines[1] = <<"objective,parameter">>
              /\ \A i \in 1..Len(adapter.history_) :
                    lines[i + 1] = format_line(adapter.history_[i][1], Rat(adapter.history_[i][2], 1))
              /\ read_csv(lines) = [i \in 1..Len(adapter.history_) |->
                                       <<adapter.history_[i][1], Rat(adapter.history_[i][2], 1)>>]


\* ------------------------------------------------------------ properties of the policy
\* the nodes linked in the three segments, Window first
AllNodes(pol) ==
    Nodes(pol, "window_list_") \o Nodes(pol, "probation_list_") \o Nodes(pol, "protected_list_")

\* C4: between any two calls of handle_cache_hit / handle_cache_miss the three
\* segments hold at most max_size keys together and each holds at most its own
\* capacity (by its size_ and by the nodes linked in it).
C4_Capacity ==
    policy.status = "ok" =>
        /\ policy.window_list_.size_ + policy.probation_list_.size_
              + policy.protected_list_.size_ <= cache.k_max_size_
        /\ policy.window_list_.size_ <= policy.k_max_window_size_
        /\ policy.probation_list_.size_ <= policy.k_max_probation_size_
        /\ policy.protected_list_.size_ <= policy.k_max_protected_size_
        /\ \A l \in Lists : policy[l].size_ = Len(Nodes(policy, l))

\* every segment is at its capacity and a key has been evicted
C4_Witness ==
    /\ policy.status = "ok"
    /\ policy.window_list_.size_ = policy.k_max_window_size_
    /\ policy.probation_list_.size_ = policy.k_max_probation_size_
    /\ policy.protected_list_.size_ = policy.k_max_protected_size_
    /\ driver.last = "miss"
    /\ Cardinality(cache.keys_) = cache.k_max_size_
    /\ \E k \in cache.keys_ : k > cache.k_max_size_

\* C5: between any two calls, the keys of the map are the keys held in the
\* three segments and the keys of the host cache, every key is held by one
\* node of one segment, and the map sends each key to the node that holds it
\* (so the lookup of a cached key in handle_cache_hit finds its node).
C5_MapConsistent ==
    policy.status = "ok" =>
        \E all \in {AllNodes(policy)} :
            /\ Cardinality({all[i] : i \in 1..Len(all)}) = Len(all)
            /\ Cardinality({policy.heap[all[i]].value.key : i \in 1..Len(all)}) = Len(all)
            /\ {policy.heap[all[i]].value.key : i \in 1..Len(all)} = DOMAIN policy.key2node_
            /\ DOMAIN policy.key2node_ = cache.keys_
            /\ \A i \in 1..Len(all) : policy.key2node_[policy.heap[all[i]].value.key] = all[i]

\* a hit on a Probation key with Protected full, after keys have been evicted:
\* the lookup succeeded, one node was promoted and one demoted
C5_Witness ==
    /\ policy.status = "ok"
    /\ driver.last = "hit"
    /\ policy.protected_list_.size_ = policy.k_max_protected_size_
    /\ policy.protected_list_.head_ = policy.key2node_[driver.key]
    /\ policy.probation_list_.size_ = policy.k_max_probation_size_
    /\ \E k \in cache.keys_ : k > cache.k_max_size_


\* the tag of the nodes of a list
TypeOf(l) ==
    IF l = "window_list_" THEN "WINDOW"
    ELSE IF l = "probation_list_" THEN "PROBATION" ELSE "PROTECTED"

Sizes3(pol) == <<pol.window_list_.size_, pol.probation_list_.size_, pol.protected_list_.size_>>

\* no linked node holds key
Unlinked(pol, key) == \A n \in DOMAIN pol.heap : pol.heap[n].value.key # key

\* C12: a miss that finds Window and Probation full compares the estimates of
\* the two tails.  If the window tail's is greater, that node becomes the head
\* of Probation, tagged PROBATION and still mapped and cached, and the key of
\* the probation tail that was compared leaves the map, the host cache and the
\* lists; otherwise the key of the window tail leaves them and Probation keeps
\* its tail.
C12_MissBothFull ==
    (driver.last = "miss" /\ obs.compared) =>
        /\ policy.status = "ok"
        /\ obs.before.window_list_.tail_ # NULL
        /\ obs.before.probation_list_.tail_ # NULL
        /\ LET wt == obs.before.window_list_.tail_
               pt == obs.before.probation_list_.tail_
               wkey == obs.before.heap[wt].value.key
               pkey == obs.before.heap[pt].value.key
           IN IF obs.greater
              THEN /\ policy.probation_list_.head_ = wt
                   /\ policy.heap[wt].value = [type |-> "PROBATION", key |-> wkey]
                   /\ wkey \in DOMAIN policy.key2node_
                   /\ policy.key2node_[wkey] = wt
                   /\ wkey \in cache.keys_
                   /\ pkey \notin DOMAIN policy.key2node_
                   /\ pkey \notin cache.keys_
                   /\ Unlinked(policy, pkey)
                   /\ policy.probation_list_.size_ = obs.before.probation_list_.size_
              ELSE /\ wkey \notin DOMAIN policy.key2node_
                   /\ wkey \notin cache.keys_
                   /\ Unlinked(policy, wkey)
                   /\ policy.probation_list_ = obs.before.probation_list_
                   /\ policy.key2node_[pkey] = pt
                   /\ pkey \in cache.keys_

C15_MissInserts ==
    driver.last = "miss" =>
        /\ policy.status = "ok"
        /\ policy.window_list_.head_ # NULL
        /\ policy.heap[policy.window_list_.head_].value = [type |-> "WINDOW", key |-> driver.key]
        /\ driver.key \in DOMAIN policy.key2node_
        /\ policy.key2node_[driver.key] = policy.window_list_.head_
        /\ driver.key \in cache.keys_
        /\ cache.put_calls = obs.cache_before.put_calls + 1
        /\ cache.remove_calls <= obs.cache_before.remove_calls + 1
        /\ (/\ obs.before.window_list_.size_ = obs.before.k_max_window_size_
            /\ obs.before.probation_list_.size_ # obs.before.k_max_probation_size_) =>
              /\ policy.probation_list_.head_ = obs.before.window_list_.tail_
              /\ policy.heap[policy.probation_list_.head_].value.type = "PROBATION"
              /\ cache.remove_calls = obs.cache_before.remove_calls
              /\ cache.keys_ = obs.cache_before.keys_ \cup {driver.key}
              /\ DOMAIN policy.key2node_ = DOMAIN obs.before.key2node_ \cup {driver.key}

\* the least integer not below n / d
CeilDiv(n, d) == (n + d - 1) \div d

\* C22: for every capacity C the capacity of Window is the ceiling of
\* C * 0.01, and so at least 1 for every C >= 1.
C22_WindowCapacity ==
    /\ policy.k_max_window_size_ = CeilDiv(cache.k_max_size_, 100)
    /\ cache.k_max_size_ >= 1 => policy.k_max_window_size_ >= 1
\* ------------------------------------------------------------ properties of a trace
InProtected(pol, key) ==
    /\ key \in DOMAIN pol.key2node_
    /\ pol.heap[pol.key2node_[key]].value.type = "PROTECTED"

\* C25 as stated: after the distinct keys and the re-accesses of the hot keys,
\* every hot key is in the Protected segment and in the host cache.
C25_AllHotProtected ==
    TraceDone(driver) =>
        \A k \in Hot : InProtected(policy, k) /\ contains(cache, k)

\* C25: after the distinct keys and the re-accesses of the hot keys, a hot key
\* is in the Protected segment exactly if one of its re-accesses hit it while it
\* was in Probation; such a key is in the host cache, and so is the key of the
\* last request. A key re-accessed key by key is in Protected only if it was
\* still cached when the re-accesses began.
C25_HotProtectedIfHitInProbation ==
    TraceDone(driver) =>
        /\ policy.status = "ok"
        /\ \A k \in Hot : InProtected(policy, k) <=> k \in driver.promoted
        /\ \A k \in Hot : InProtected(policy, k) => contains(cache, k)
        /\ contains(cache, driver.key)
        /\ driver.order = "key by key" =>
              \A k \in Hot : InProtected(policy, k) => k \in driver.kept

\* the trace is over: one hot key is in Protected, one is cached outside
\* Protected and one has been evicted
C25_Witness ==
    /\ TraceDone(driver)
    /\ \E k \in Hot : InProtected(policy, k)
    /\ \E k \in Hot : contains(cache, k) /\ ~InProtected(policy, k)
    /\ \E k \in Hot : ~contains(cache, k)

\* ------------------------------------------------------------ properties of the bandit adapters
\* every objective passed after the first call was positive
PositiveRewards ==
    \A n \in 1..(driver.calls - 1) : RLt(Rat(0, 1), Objective(driver.first, n))

\* C26: with epsilon = 0 and every reward after the first call positive, the arm
\* the first call picked is the only arm with a positive estimate, and every
\* later call returns the alpha of that arm.
C26_GreedyKeepsFirstArm ==
    (/\ adapter.kind = "EpsilonGreedy"
     /\ adapter.k_epsilon_ = Rat(0, 1)
     /\ driver.calls >= 2
     /\ PositiveRewards) =>
        /\ adapter.current_arm_ = driver.first_arm
        /\ driver.param = adapter.arms_[driver.first_arm]
        /\ obs.op = "call" => obs.new_param = adapter.arms_[driver.first_arm]
        /\ \A i \in DOMAIN adapter.estimates_ :
              RLt(Rat(0, 1), adapter.estimates_[i]) <=> i = driver.first_arm

\* the first call picked the last arm and all the calls of the run have been made
C26_Witness ==
    /\ adapter.kind = "EpsilonGreedy"
    /\ adapter.k_epsilon_ = Rat(0, 1)
    /\ driver.calls = MaxCalls
    /\ PositiveRewards
    /\ driver.first_arm = adapter.k_num_arms_ - 1
    /\ adapter.current_arm_ = driver.first_arm
    /\ obs.op = "call"
    /\ obs.new_param = adapter.arms_[adapter.k_num_arms_ - 1]

\* C27: two epsilon-greedy adapters whose generators were seeded alike and that
\* are passed the same objectives return the same sequence of (arm, alpha),
\* the arm of the first call included.
C27_SameSeedSameSequence ==
    driver.seed[1] = driver.seed[2] => driver.returned[1] = driver.returned[2]

\* the sum of sign * r' over a window, from its newest reward to its oldest
RECURSIVE Sigma(_, _)
Sigma(window, sign) ==
    IF window = <<>> THEN Exact(Rat(0, 1))
    ELSE Plus(Sigma(SubSeq(window, 1, Len(window) - 1), sign), window[Len(window)], sign)

\* C28: for every arm of the Thompson adapter alpha_beta = 1 + the sum of r' and
\* beta_beta = 1 + the sum of (1 - r') over exactly the last W rewards handed
\* to the arm; an arm that was handed no reward has Beta(1, 1).
C28_BetaPosterior ==
    adapter.kind = "Thompson" =>
        \A i \in DOMAIN adapter.arms_ :
            LET window == LastN(driver.fed[i], adapter.k_window_size_)
            IN /\ get_beta_alpha(adapter.arm_histories_[i]) =
                     Plus(Sigma(window, 1), Rat(1, 1), 1)
               /\ get_beta_beta(adapter.arm_histories_[i]) =
                     Plus(Plus(Sigma(window, -1), Rat(Len(window), 1), 1), Rat(1, 1), 1)
               /\ driver.fed[i] = <<>> =>
                     /\ get_beta_alpha(adapter.arm_histories_[i]) = Exact(Rat(1, 1))
                     /\ get_beta_beta(adapter.arm_histories_[i]) = Exact(Rat(1, 1))

\* one arm has given up a reward and its two Beta parameters differ; the other
\* arm was handed no reward
C28_Witness ==
    /\ adapter.kind = "Thompson"
    /\ \E i \in DOMAIN adapter.arms_ :
          /\ Len(driver.fed[i]) > adapter.k_window_size_
          /\ get_beta_alpha(adapter.arm_histories_[i]) # get_beta_beta(adapter.arm_histories_[i])
          /\ get_beta_alpha(adapter.arm_histories_[i]) # Exact(Rat(1, 1))
    /\ \E i \in DOMAIN adapter.arms_ : driver.fed[i] = <<>>

\* C29: the arms of a bandit adapter are N strictly increasing values inside
\* [alpha_min, alpha_max], the first alpha_min and the last alpha_max, for every
\* N >= 1, and no operation on the adapter changes them.
C29_ArmSetFixed ==
    /\ DOMAIN adapter.arms_ = 0..(adapter.k_num_arms_ - 1)
    /\ \A i \in DOMAIN adapter.arms_ :
          /\ DoubleLe(driver.min_param, adapter.arms_[i])
          /\ DoubleLe(adapter.arms_[i], driver.max_param)
    /\ \A i, j \in DOMAIN adapter.arms_ :
          i < j => DoubleLt(adapter.arms_[i], adapter.arms_[j])
    /\ DoubleEq(adapter.arms_[0], driver.min_param)
    /\ DoubleEq(adapter.arms_[adapter.k_num_arms_ - 1], driver.max_param)
    /\ obs.op # "none" =>
          /\ adapter.arms_ = obs.before.arms_
          /\ adapter.k_num_arms_ = obs.before.k_num_arms_

\* ------------------------------------------------------------ properties of the matrix
RECURSIVE PowerOfTwo(_)
PowerOfTwo(n) == n = 1 \/ (n > 1 /\ n % 2 = 0 /\ PowerOfTwo(n \div 2))

\* max(size / 4, 8)
RequestedWidth == IF driver.size \div 4 > 8 THEN driver.size \div 4 ELSE 8

\* C30: for any requested size >= 1 the width of the matrix is the least power
\* of two that is at least max(size / 4, 8), so a power of two >= 8; the matrix
\* has 4 * w cells, and the index of every key in every row is below w and,
\* offset by row * w, addresses a cell of that row, before and after updates.
C30_WidthPowerOfTwo ==
    sketch.status = "ok" =>
        /\ PowerOfTwo(sketch.k_width_)
        /\ sketch.k_width_ >= 8
        /\ sketch.k_width_ >= RequestedWidth
        /\ sketch.k_width_ \div 2 < RequestedWidth
        /\ DOMAIN sketch.data_ = 0..(4 * sketch.k_width_ - 1)
        /\ \A item \in Keys, i \in 0..3 :
              /\ row_index(sketch, item, i) \in 0..(sketch.k_width_ - 1)
              /\ position(sketch, item, i) \in
                    (i * sketch.k_width_)..((i + 1) * sketch.k_width_ - 1)
              /\ position(sketch, item, i) \in DOMAIN sketch.data_
        /\ obs.item # 0 =>
              \A p \in DOMAIN sketch.data_ :
                  sketch.data_[p] # obs.before.data_[p] => p \in Cells(sketch, obs.item)

\* a sketch of size 3 (size / 4 = 0) has been updated: its width is 8 and the
\* last row's cell of the item is written
C30_Witness ==
    /\ UpdateReturned
    /\ driver.size = 3
    /\ sketch.k_width_ = 8
    /\ sketch.data_[position(sketch, obs.item, 3)] # {}
    /\ position(sketch, obs.item, 3) >= 3 * sketch.k_width_

AlphaIsArm ==
    /\ \E i \in DOMAIN adapter.arms_ : DoubleEq(sketch.alpha_, adapter.arms_[i])
    /\ DoubleLe(driver.min_param, sketch.alpha_)
    /\ DoubleLe(sketch.alpha_, driver.max_param)

\* C32: with a bandit adapter attached, once the adapter has been called alpha
\* is one of its arms and so lies in [alpha_min, alpha_max]; and alpha changes
\* only in an update in which adapt ran.
C32_AlphaIsArm ==
    /\ obs.adapter_calls > 0 => AlphaIsArm
    /\ (obs.item # 0 /\ sketch.alpha_ # obs.before.alpha_) => obs.adapted

\* ------------------------------------------------------------ prune and adapt seen from estimate
\* the sketch as the last update handed it to its n-th prune, and as its row
\* loop left it (the state adapt started from)
HandedToPrune(n) == [obs.before EXCEPT !.data_ = obs.log[n].handed, !.t_ = obs.log[n].t]
HandedToAdapt == [obs.before EXCEPT !.data_ = obs.committed, !.t_ = obs.committed_t,
                                    !.adapt_counter_ = @ + 1]

SameEstimates(s1, s2) == \A k \in Keys : estimate(s1, k) = estimate(s2, k)

\* C33: prune changes no key's estimate, and neither does adapt, which prunes
\* and then replaces alpha: the estimates right after are those right before.
C33_EstimatesKept ==
    /\ \A n \in 1..Len(obs.log) : SameEstimates(prune(HandedToPrune(n)), HandedToPrune(n))
    /\ (obs.adapted /\ sketch.status = "ok") =>
          /\ SameEstimates(prune(HandedToAdapt), HandedToAdapt)
          /\ SameEstimates(sketch, HandedToAdapt)

\* an update pruned after an overflow and then adapted, alpha changed, and a
\* key has an estimate above zero
C33_Witness ==
    /\ Len(obs.log) > 0
    /\ \E n \in 1..Len(obs.log) : obs.log[n].t > 0 /\ estimate(HandedToPrune(n), obs.item) # {}
    /\ obs.adapted
    /\ obs.called
    /\ sketch.status = "ok"
    /\ sketch.alpha_ # obs.before.alpha_
    /\ obs.committed_t > 0
    /\ estimate(sketch, obs.item) # {}

\* ------------------------------------------------------------ the arm a reward goes to
\* parameters a caller may pass: the arms, and values that are no arm
ParamsPassed == {1, 3, 6, 12, 24}

\* C34: in both bandit adapters every call returns the arm it stores as the
\* current one, and a call after the first credits its reward to the arm stored
\* by the call before, whatever parameter it is passed: the estimate and count
\* (epsilon-greedy) or the window (Thompson) of that arm take the reward, and
\* those of every other arm stay as they were.
C34_RewardToCurrentArm ==
    obs.op = "call" =>
        /\ obs.new_param = adapter.arms_[adapter.current_arm_]
        /\ obs.path = "adapt" =>
              LET b == obs.before
                  cur == b.current_arm_
                  step == IF b.k_is_step_constant_ THEN b.k_step_constant_
                          ELSE Rat(1, b.updated_counts_[cur] + 1)
              IN /\ \A i \in DOMAIN b.arms_ \ {cur} :
                        /\ adapter.estimates_[i] = b.estimates_[i]
                        /\ adapter.updated_counts_[i] = b.updated_counts_[i]
                        /\ adapter.arm_histories_[i] = b.arm_histories_[i]
                 /\ b.kind = "EpsilonGreedy" =>
                        /\ adapter.estimates_[cur] =
                              RAdd(b.estimates_[cur],
                                   RMul(step, RSub(obs.obj, b.estimates_[cur])))
                        /\ adapter.updated_counts_[cur] =
                              b.updated_counts_[cur] + (IF b.k_is_step_constant_ THEN 0 ELSE 1)
                 /\ b.kind = "Thompson" =>
                        /\ adapter.arm_histories_[cur] # <<>>
                        /\ adapter.arm_histories_[cur][Len(adapter.arm_histories_[cur])] =
                              pow_inv(obs.obj, b.k_reward_scaling_)
                        /\ adapter.total_pulls_ = b.total_pulls_ + 1
                 /\ \A p \in ParamsPassed :
                        \E c \in {Adapter_call(b, obs.obj, p, obs.rnd)} :
                            /\ ArmStatistics(c.a) = ArmStatistics(adapter)
                            /\ c.a.current_arm_ = adapter.current_arm_
                            /\ c.new_param = obs.new_param

\* a call after the first moved on to another arm, credited the arm it started
\* on and left alone an arm that had statistics of its own
C34_Witness ==
    /\ obs.op = "call"
    /\ obs.path = "adapt"
    /\ adapter.current_arm_ # obs.before.current_arm_
    /\ ArmStatistics(adapter) # ArmStatistics(obs.before)
    /\ \E i \in DOMAIN adapter.arms_ \ {obs.before.current_arm_} :
          \/ obs.before.updated_counts_[i] > 0
          \/ obs.before.arm_histories_[i] # <<>>
          \/ obs.before.estimates_[i] # Rat(0, 1)

\* ------------------------------------------------------------ tags and lists
\* C35: between any two calls of handle_cache_hit / handle_cache_miss every
\* node linked in a list carries the tag of that list: WINDOW in Window,
\* PROBATION in Probation, PROTECTED in Protected.
C35_TagIsList ==
    policy.status = "ok" =>
        \A l \in Lists :
            \E nodes \in {Nodes(policy, l)} :
                \A i \in 1..Len(nodes) : policy.heap[nodes[i]].value.type = TypeOf(l)

\* the three lists hold nodes, and the last request promoted a key of Probation
\* and sent the tail of the full Protected back to Probation
C35_Witness ==
    /\ policy.status = "ok"
    /\ driver.last = "hit"
    /\ \A l \in Lists : policy[l].size_ > 0
    /\ obs.before.heap[obs.before.key2node_[driver.key]].value.type = "PROBATION"
    /\ obs.before.protected_list_.size_ = policy.k_max_protected_size_
    /\ policy.probation_list_.head_ = obs.before.protected_list_.tail_
    /\ policy.heap[policy.probation_list_.head_].value.type = "PROBATION"

\* ------------------------------------------------------------ where keys are evicted
\* the keys the last request took out of the host cache and out of the map
EvictedFromCache == obs.cache_before.keys_ \ cache.keys_
EvictedFromMap == DOMAIN obs.before.key2node_ \ DOMAIN policy.key2node_

\* C36: handle_cache_hit adds no key to the map or the host cache and removes
\* none; handle_cache_miss evicts at most one key, the key of the tail of Window
\* or of the tail of Probation as the call found them, never a key that is in
\* Protected, and adds the requested key alone.
C36_EvictionsOnlyOnMiss ==
    (policy.status = "ok" /\ driver.last # "none") =>
        /\ driver.last = "hit" =>
              /\ DOMAIN policy.key2node_ = DOMAIN obs.before.key2node_
              /\ cache.keys_ = obs.cache_before.keys_
              /\ cache.put_calls = obs.cache_before.put_calls
              /\ cache.remove_calls = obs.cache_before.remove_calls
        /\ driver.last = "miss" =>
              /\ EvictedFromCache = EvictedFromMap
              /\ Cardinality(EvictedFromCache) <= 1
              /\ DOMAIN policy.key2node_ \ DOMAIN obs.before.key2node_ = {driver.key}
              /\ \A k \in EvictedFromMap :
                    \E node \in {obs.before.key2node_[k]} :
                        /\ node \in {obs.before.window_list_.tail_,
                                     obs.before.probation_list_.tail_}
                        /\ obs.before.heap[node].value.type \in {"WINDOW", "PROBATION"}
                        /\ ~InProtected(obs.before, k)

\* a miss evicted the tail of Probation while Protected held keys
C36_Witness ==
    /\ policy.status = "ok"
    /\ driver.last = "miss"
    /\ obs.before.protected_list_.size_ > 0
    /\ EvictedFromMap # {}
    /\ \A k \in EvictedFromMap : obs.before.key2node_[k] = obs.before.probation_list_.tail_

\* ------------------------------------------------------------ empty lists
\* C37: for every capacity >= 1 no request makes the policy read the tail of an
\* empty list, transfer from one or remove from one (the process would die
\* there); the first miss of a fresh policy puts its key at the head of Window.
C37_NoEmptyListAccess ==
    /\ policy.status # "crashed"
    /\ (driver.last = "miss" /\ obs.before.heap = <<>>) =>
          /\ policy.window_list_.size_ = 1
          /\ policy.heap[policy.window_list_.head_].value = [type |-> "WINDOW", key |-> driver.key]

\* ------------------------------------------------------------ a copy seen from estimate
\* C38: a sketch made by the copy constructor or written by the copy assignment
\* gives, when it is copied, the estimate of the original for every key,
\* whatever t, alpha and counters the original has.
C38_CopySameEstimates ==
    driver.copied # "none" => SameEstimates(driver.copy, driver.original)

\* ------------------------------------------------------------ the reward in the caching benchmark
\* C39: in the caching benchmark, where sum goes up by one per hit before the
\* one update of the request, the reward sum / adapt_interval handed to the
\* adapter lies in [0, 1] at every adapt; between adapts sum counts at most the
\* updates since the last one.
C39_RewardInUnitInterval ==
    /\ obs.called =>
          /\ ~RLt(obs.reward, Rat(0, 1))
          /\ ~RLt(Rat(1, 1), obs.reward)
    /\ sketch.status = "ok" => sketch.sum <= sketch.adapt_counter_

\* the adapter was handed the reward 1 after an interval of two or more
\* requests that were all hits
C39_Witness ==
    /\ obs.called
    /\ obs.reward = Rat(1, 1)
    /\ sketch.k_adapt_interval_ >= 2
    /\ obs.adapter_calls >= 1
    /\ sketch.sum = 0

\* ------------------------------------------------------------ recording switched on and off
\* C40: start_recording_history empties the history and turns recording on;
\* stop_recording_history turns recording off and keeps the history;
\* clear_history empties the history and leaves recording as it was; a call
\* made while recording is off leaves the history as it was.  None of the three
\* changes anything else of the adapter.
C40_RecordingSwitch ==
    /\ obs.op = "start_recording_history" =>
          /\ adapter.recording_history_
          /\ adapter.history_ = <<>>
          /\ adapter = [obs.before EXCEPT !.recording_history_ = TRUE, !.history_ = <<>>]
    /\ obs.op = "stop_recording_history" =>
          /\ ~adapter.recording_history_
          /\ adapter.history_ = obs.before.history_
          /\ adapter = [obs.before EXCEPT !.recording_history_ = FALSE]
    /\ obs.op = "clear_history" =>
          /\ adapter.history_ = <<>>
          /\ adapter.recording_history_ = obs.before.recording_history_
          /\ adapter = [obs.before EXCEPT !.history_ = <<>>]
    /\ (obs.op = "call" /\ ~obs.before.recording_history_) =>
          /\ adapter.history_ = obs.before.history_
          /\ ~adapter.recording_history_

\* recording was stopped with pairs in the history, and a call made after that
\* left them as they were
C40_Witness ==
    /\ obs.op = "call"
    /\ obs.path = "adapt"
    /\ ~obs.before.recording_history_
    /\ obs.before.history_ # <<>>
    /\ adapter.history_ = obs.before.history_

====
